---- MODULE Spec2Model ----
(***************************************************************************)
(* Mastery Engine.                                                         *)
(*                                                                         *)
(* Part 1: the retry/backoff wrapper withRetry of the LLM service module,  *)
(* in its two revisions:                                                   *)
(*   "plain"   src/services/geminiService.ts:155-171  (await fn())         *)
(*   "timeout" src/services/geminiService.ts:7-27     (Promise.race of     *)
(*             fn() against a 20000 ms timer)                              *)
(* One behaviour of the model is one call withRetry(fn, maxRetries).  An   *)
(* action is the code that runs between two awaits of the async function.  *)
(*                                                                         *)
(* Part 2: the Mermaid text sanitizer sanitizeMermaid of the Diagram       *)
(* component, in its three revisions:                                      *)
(*   "A" src/components/Diagram.tsx:84-138                                 *)
(*   "B" src/components/Diagram.tsx:438-518                                *)
(*   "C" src/unnamed/part_002:33-62                                        *)
(* A string is a sequence of one-character strings; every regular          *)
(* expression of the code is an operator that matches as the JS engine     *)
(* does (leftmost match, greedy and lazy quantifiers, global replace).     *)
(*                                                                         *)
(* Parts 3 to 7: the conversation of the App component (sendMessage,       *)
(* clear, glossary), the contents list of getGeminiResponse, the render    *)
(* effect of the Diagram component, the session effect of                  *)
(* LiveAudioSession and the undo/redo history of the input field.  Each    *)
(* part has its own specification, in which the other parts are at rest.   *)
(***************************************************************************)
EXTENDS Integers, Sequences, FiniteSets, TLC

VARIABLES
    rev,           \* which revision of withRetry is running
    maxRetries,    \* the maxRetries argument of the call
    pc,            \* "idle" | "pending" | "sleeping" | "resolved" | "rejected"
    attempt,       \* the loop variable `attempt`
    lastError,     \* the local `lastError`
    invocations,   \* number of times fn() has been called
    inFlight,      \* invocation numbers whose promise has not settled
    timers,        \* invocation numbers whose 20000 ms timer is still armed
    elapsed,       \* ms since the invocation being awaited started
    sleepMs,       \* duration of the backoff sleep being awaited (0: none)
    resolvedWith,  \* value withRetry resolved with
    rejectedWith,  \* error withRetry rejected with
    opValue,       \* history: value the awaited invocation resolved with
    failures,      \* history: the errors caught, one per failed attempt
    delays,        \* history: the durations passed to sleep(), in order
    sanRev,        \* which revision of sanitizeMermaid is called
    sanInput,      \* the argument `raw`
    sanPc,         \* "off" | "ready" | "once" | "twice"
    sanOut,        \* sanitizeMermaid(raw)
    sanOut2,       \* sanitizeMermaid(sanitizeMermaid(raw))
    chatRev,       \* which revision of App is running
    now,           \* Date.now(), in ms
    messages,      \* the state `messages`
    isLoading,     \* the state `isLoading`
    chatError,     \* the state `error` (first revision): request it reports, 0 for null
    requests,      \* numbers of the getGeminiResponse calls that have not settled
    sends,         \* number of accepted sendMessage calls
    outcomes,      \* history: the outcomes recorded, [req, kind], in order
    sinceClear,    \* history: the chat was cleared and no send was accepted since
    glossary,      \* the state `glossary`: the ids of its items
    cHistory,      \* the argument `history` of getGeminiResponse
    cMessage,      \* the argument `userMessage`
    cAttachment,   \* whether the argument `attachment` is given
    cBuilt,        \* history: the `contents` list of each attempt, in order
    diagRev,       \* which revision of the Diagram component is mounted
    dRun,          \* number of runs of the render effect so far
    dChart,        \* the prop chart: "blank" | "ok" | "long"
    dActive,       \* the runs whose local active is still true
    dDelay,        \* the runs waiting for their 300 ms timer
    dInRender,     \* the runs awaiting mermaid.render
    dSvg,          \* the state svg: the run whose result it holds, 0 for ''
    dError,        \* the state error: the run that set it, 0 for null or false
    dIsRendering,  \* the state isRendering
    dRejected,     \* history: the runs whose mermaid.render rejected
    liveRev,       \* which revision of LiveAudioSession is mounted
    lOpen,         \* the prop isOpen
    lRun,          \* number of runs of the effect with isOpen true
    lActive,       \* the runs whose local active is still true
    lStage,        \* per run, where startSession stands: "none" | "media" | "connect" | "open" | "failed"
    lConn,         \* per run, its live connection: "none" | "opening" | "open" | "closed"
    lProcessor,    \* the runs whose onopen attached the audio processor
    lSessionRef,   \* sessionRef.current: the run whose session it holds, 0 for null
    lStatus,       \* the state status
    lTranscript,   \* number of setTranscript calls
    lSent,         \* number of sendRealtimeInput calls
    lCleaned,      \* history: the runs whose cleanup has run
    lLate,         \* history: what callbacks of cleaned-up runs did, <<run, what>>
    hInput,        \* the state input
    hHistory,      \* the state inputHistory
    hIndex,        \* the state historyIndex
    hInternal,     \* isInternalUpdate.current
    hTimer,        \* whether the 500 ms timer of the last effect run is armed
    hDirty         \* whether input, inputHistory or historyIndex changed since the effect last ran

retryVars == <<rev, maxRetries, pc, attempt, lastError, invocations, inFlight,
               timers, elapsed, sleepMs, resolvedWith, rejectedWith, opValue,
               failures, delays>>

sanVars == <<sanRev, sanInput, sanPc, sanOut, sanOut2>>

chatVars == <<chatRev, now, messages, isLoading, chatError, requests, sends,
              outcomes, sinceClear, glossary>>

contentsVars == <<cHistory, cMessage, cAttachment, cBuilt>>

diagVars == <<diagRev, dRun, dChart, dActive, dDelay, dInRender, dSvg, dError, dIsRendering, dRejected>>

liveVars == <<liveRev, lOpen, lRun, lActive, lStage, lConn, lProcessor, lSessionRef, lStatus, lTranscript, lSent, lCleaned, lLate>>

histVars == <<hInput, hHistory, hIndex, hInternal, hTimer, hDirty>>

\* the variables of the parts after the sanitizer
appVars == <<chatVars, contentsVars, diagVars, liveVars, histVars>>

\* what the actions of one part leave alone
besidesChat == <<retryVars, sanVars, contentsVars, diagVars, liveVars, histVars>>
besidesContents == <<retryVars, sanVars, chatVars, diagVars, liveVars, histVars>>
besidesDiag == <<retryVars, sanVars, chatVars, contentsVars, liveVars, histVars>>
besidesLive == <<retryVars, sanVars, chatVars, contentsVars, diagVars, histVars>>
besidesHist == <<retryVars, sanVars, chatVars, contentsVars, diagVars, liveVars>>

vars == <<retryVars, sanVars, appVars>>

----------------------------------------------------------------------------
(* Bounds of the model *)

MaxRetriesBound == 3
NumTicks == 2

(* Program constants *)

TimeoutMs == 20000
BaseMs == 1000

Revisions == {"plain", "timeout"}

\* JS `undefined` / `null` / a missing property, as a number no status takes
Undefined == -1

\* error.status values an operation may reject with
StatusValues == {Undefined, 400, 429, 500, 599, 600}
\* error.response.status values (Undefined: the error has no response)
ResponseValues == {Undefined, 503}
\* values an operation may resolve with
Values == {"v1", "v2"}
NoValue == "none"

Min(a, b) == IF a <= b THEN a ELSE b

TickMs == TimeoutMs \div NumTicks
\* the plain revision has no timer: an invocation may outlast 20000 ms
MaxElapsed(r) == IF r = "timeout" THEN TimeoutMs ELSE TimeoutMs + TickMs

----------------------------------------------------------------------------
(* Error objects.  `id` is the identity of the object: the number of the   *)
(* invocation (or of the attempt whose timer made it); 0 is no object.     *)

OpError(k, s, r) == [kind |-> "op", id |-> k, status |-> s, resp |-> r]
OpErrors(k) == {OpError(k, s, r) : s \in StatusValues, r \in ResponseValues}
\* mutant of TimeoutError: the timeout error carries a gateway-timeout status
TimeoutError_Status504(k) == [kind |-> "timeout", id |-> k, status |-> 504, resp |-> Undefined]

\* new Error("Neural synchronization timeout"): no status, no response
TimeoutError(k) == [kind |-> "timeout", id |-> k, status |-> Undefined, resp |-> Undefined]
\* `let lastError: any;` never assigned
UndefinedError == [kind |-> "undefined", id |-> 0, status |-> Undefined, resp |-> Undefined]

\* JS truthiness of a status: undefined, null and 0 are falsy
Truthy(x) == x # Undefined /\ x # 0
\* JS `x >= n`: false when x is undefined (NaN) or null (0)
GE(x, n) == x # Undefined /\ x >= n

\* 2^n, Math.pow(2, attempt)
RECURSIVE Pow2(_)
Pow2(n) == IF n <= 0 THEN 1 ELSE 2 * Pow2(n - 1)

\* the status the catch block classifies:
\*   plain:   error.status
\*   timeout: error.status || (error.response ? error.response.status : null)
ErrStatus(r, e) ==
    IF r = "plain" THEN e.status
    ELSE IF Truthy(e.status) THEN e.status ELSE e.resp

\* mutants of IsRetryable: a 4xx class test, and the revision in which a
\* timeout counts toward the retry budget
IsRetryable_ClientErrors(r, e) ==
    ErrStatus(r, e) = 429 \/ GE(ErrStatus(r, e), 400)
IsRetryable_TimeoutRetried(r, e) ==
    \/ e.kind = "timeout"
    \/ ErrStatus(r, e) = 429
    \/ GE(ErrStatus(r, e), 500)
IsRetryable_No429(r, e) ==
    GE(ErrStatus(r, e), 500)

\* the retry condition of the catch block:
\*   plain:   error.status === 429 || error.status >= 500
\*   timeout: status === 429 || (status && status >= 500)
IsRetryable(r, e) ==
    IF r = "plain"
    THEN ErrStatus(r, e) = 429 \/ GE(ErrStatus(r, e), 500)
    ELSE ErrStatus(r, e) = 429 \/ (Truthy(ErrStatus(r, e)) /\ GE(ErrStatus(r, e), 500))

\* mutant of WaitTime: linear backoff
WaitTime_Linear(a) == (a + 1) * BaseMs

\* const waitTime = Math.pow(2, attempt) * 1000
WaitTime(a) == Pow2(a) * BaseMs

\* mutant of LoopCond: the body runs once before the test (do-while)
LoopCond_AtLeastOnce(a, n) == a = 0 \/ a < n

\* mutant of LoopCond: off by one
LoopCond_OffByOne(a, n) == a <= n

\* the loop condition `attempt < maxRetries`
LoopCond(a, n) == a < n

\* mutant of Rethrow: the error is wrapped in a new one
Rethrow_Wrapped(e) == [e EXCEPT !.kind = "wrapped"]

\* the error `throw lastError` / `throw error` rejects with
Rethrow(e) == e

----------------------------------------------------------------------------
(* The parts of the program are modelled one at a time: while one part     *)
(* runs, the others rest in these states.                                  *)

RetryIdle ==
    /\ rev = "plain"
    /\ maxRetries = 0
    /\ pc = "idle"
    /\ attempt = 0
    /\ lastError = UndefinedError
    /\ invocations = 0
    /\ inFlight = {}
    /\ timers = {}
    /\ elapsed = 0
    /\ sleepMs = 0
    /\ resolvedWith = NoValue
    /\ rejectedWith = UndefinedError
    /\ opValue = NoValue
    /\ failures = <<>>
    /\ delays = <<>>

SanIdle ==
    /\ sanRev = "A"
    /\ sanInput = <<>>
    /\ sanPc = "off"
    /\ sanOut = <<>>
    /\ sanOut2 = <<>>

ChatIdle ==
    /\ chatRev = "v1"
    /\ now = 0
    /\ messages = <<>>
    /\ isLoading = FALSE
    /\ chatError = 0
    /\ requests = {}
    /\ sends = 0
    /\ outcomes = <<>>
    /\ sinceClear = FALSE
    /\ glossary = <<>>

ContentsIdle ==
    /\ cHistory = <<>>
    /\ cMessage = <<>>
    /\ cAttachment = FALSE
    /\ cBuilt = <<>>

DiagIdle ==
    /\ diagRev = "D1"
    /\ dRun = 0
    /\ dChart = "blank"
    /\ dActive = {}
    /\ dDelay = {}
    /\ dInRender = {}
    /\ dSvg = 0
    /\ dError = 0
    /\ dIsRendering = TRUE
    /\ dRejected = {}

LiveIdle ==
    /\ liveRev = "L1"
    /\ lOpen = FALSE
    /\ lRun = 0
    /\ lActive = {}
    /\ lStage = <<>>
    /\ lConn = <<>>
    /\ lProcessor = {}
    /\ lSessionRef = 0
    /\ lStatus = "connecting"
    /\ lTranscript = 0
    /\ lSent = 0
    /\ lCleaned = {}
    /\ lLate = {}

HistIdle ==
    /\ hInput = ""
    /\ hHistory = <<"">>
    /\ hIndex = 0
    /\ hInternal = FALSE
    /\ hTimer = FALSE
    /\ hDirty = FALSE

AppIdle == ChatIdle /\ ContentsIdle /\ DiagIdle /\ LiveIdle /\ HistIdle

\* the other parts are at rest while one part runs
ChatAlone == RetryIdle /\ SanIdle /\ ContentsIdle /\ DiagIdle /\ LiveIdle /\ HistIdle
ContentsAlone == RetryIdle /\ SanIdle /\ ChatIdle /\ DiagIdle /\ LiveIdle /\ HistIdle
DiagAlone == RetryIdle /\ SanIdle /\ ChatIdle /\ ContentsIdle /\ LiveIdle /\ HistIdle
LiveAlone == RetryIdle /\ SanIdle /\ ChatIdle /\ ContentsIdle /\ DiagIdle /\ HistIdle
HistAlone == RetryIdle /\ SanIdle /\ ChatIdle /\ ContentsIdle /\ DiagIdle /\ LiveIdle

----------------------------------------------------------------------------
Init ==
    /\ rev \in Revisions
    /\ maxRetries \in -1..MaxRetriesBound
    /\ pc = "idle"
    /\ attempt = 0
    /\ lastError = UndefinedError
    /\ invocations = 0
    /\ inFlight = {}
    /\ timers = {}
    /\ elapsed = 0
    /\ sleepMs = 0
    /\ resolvedWith = NoValue
    /\ rejectedWith = UndefinedError
    /\ opValue = NoValue
    /\ failures = <<>>
    /\ delays = <<>>
    /\ sanRev = "A"
    /\ sanInput = <<>>
    /\ sanPc = "off"
    /\ sanOut = <<>>
    /\ sanOut2 = <<>>
    /\ AppIdle

\* The top of the for loop with loop variable a: either the body runs up to
\* its await (fn() is called; the timeout revision also arms a timer), or the
\* loop is over and `throw lastError` rejects.
EnterLoop(a) ==
    /\ attempt' = a
    /\ sleepMs' = 0
    /\ IF LoopCond(a, maxRetries)
       THEN /\ invocations' = invocations + 1
            /\ inFlight' = inFlight \cup {invocations + 1}
            /\ timers' = IF rev = "timeout" THEN timers \cup {invocations + 1} ELSE timers
            /\ elapsed' = 0
            /\ pc' = "pending"
            /\ UNCHANGED rejectedWith
       ELSE /\ pc' = "rejected"
            /\ rejectedWith' = Rethrow(lastError)
            /\ UNCHANGED <<invocations, inFlight, timers, elapsed>>

\* The catch block with the caught error e, up to its await or throw.
Catch(e) ==
    /\ lastError' = e
    /\ failures' = Append(failures, e)
    /\ IF IsRetryable(rev, e)
       THEN /\ pc' = "sleeping"
            /\ sleepMs' = WaitTime(attempt)
            /\ delays' = Append(delays, WaitTime(attempt))
            /\ UNCHANGED rejectedWith
       ELSE /\ pc' = "rejected"
            /\ rejectedWith' = Rethrow(e)
            /\ UNCHANGED <<sleepMs, delays>>

\* withRetry(fn, maxRetries) is called: runs to the first await
Call ==
    /\ pc = "idle"
    /\ EnterLoop(0)
    /\ UNCHANGED <<sanVars, appVars, rev, maxRetries, lastError, resolvedWith, opValue, failures, delays>>

\* time passes while the invocation is awaited
Tick ==
    /\ pc = "pending"
    /\ elapsed < MaxElapsed(rev)
    /\ elapsed' = Min(elapsed + TickMs, MaxElapsed(rev))
    /\ UNCHANGED <<sanVars, appVars, rev, maxRetries, pc, attempt, lastError, invocations, inFlight,
                   timers, sleepMs, resolvedWith, rejectedWith, opValue, failures, delays>>

\* mutant of OpResolves: the `return` is missing, the loop goes on
OpResolves_NoReturn ==
    /\ pc = "pending"
    /\ \E v \in Values : opValue' = v
    /\ EnterLoop(attempt + 1)
    /\ UNCHANGED <<sanVars, appVars, rev, maxRetries, lastError, resolvedWith, failures, delays>>

\* the awaited invocation resolves with v: `return await ...`
OpResolves ==
    /\ pc = "pending"
    /\ \E v \in Values :
        /\ opValue' = v
        /\ resolvedWith' = v
    /\ pc' = "resolved"
    /\ inFlight' = inFlight \ {invocations}
    /\ UNCHANGED <<sanVars, appVars, rev, maxRetries, attempt, lastError, invocations, timers, elapsed,
                   sleepMs, rejectedWith, failures, delays>>

\* the awaited invocation rejects with e: the catch block runs
OpRejects ==
    /\ pc = "pending"
    /\ \E e \in OpErrors(invocations) : Catch(e)
    /\ inFlight' = inFlight \ {invocations}
    /\ UNCHANGED <<sanVars, appVars, rev, maxRetries, attempt, invocations, timers, elapsed,
                   resolvedWith, opValue>>

\* the timer of the awaited attempt fires before fn() has settled: the race
\* rejects with the timeout error and the catch block runs.  fn() is not
\* cancelled: its promise stays in flight.
TimeoutFires ==
    /\ rev = "timeout"
    /\ pc = "pending"
    /\ elapsed >= TimeoutMs
    /\ invocations \in timers
    /\ timers' = timers \ {invocations}
    /\ Catch(TimeoutError(invocations))
    /\ UNCHANGED <<sanVars, appVars, rev, maxRetries, attempt, invocations, inFlight, elapsed,
                   resolvedWith, opValue>>

\* sleep(waitTime) is over: `continue` runs attempt++ and re-enters the loop
SleepDone ==
    /\ pc = "sleeping"
    /\ EnterLoop(attempt + 1)
    /\ UNCHANGED <<sanVars, appVars, rev, maxRetries, lastError, resolvedWith, opValue, failures, delays>>

\* a timer that lost its race (never cleared by the code) fires: the race
\* is already settled, nothing changes but the timer
StaleTimerFires ==
    /\ \E k \in timers :
        /\ (k < invocations \/ pc # "pending")
        /\ timers' = timers \ {k}
    /\ UNCHANGED <<sanVars, appVars, rev, maxRetries, pc, attempt, lastError, invocations, inFlight,
                   elapsed, sleepMs, resolvedWith, rejectedWith, opValue, failures, delays>>

\* an invocation that lost its race against the timer settles later: ignored
LateSettle ==
    /\ \E k \in inFlight :
        /\ pc # "pending"
        /\ inFlight' = inFlight \ {k}
    /\ UNCHANGED <<sanVars, appVars, rev, maxRetries, pc, attempt, lastError, invocations, timers,
                   elapsed, sleepMs, resolvedWith, rejectedWith, opValue, failures, delays>>

Next ==
    \/ Call
    \/ Tick
    \/ OpResolves
    \/ OpRejects
    \/ TimeoutFires
    \/ SleepDone
    \/ StaleTimerFires
    \/ LateSettle

Spec == Init /\ [][Next]_vars

\* Every invocation settles (the premise of the termination claim) and the
\* event loop runs every due timer and continuation.
FairSpec ==
    /\ Spec
    /\ WF_vars(Call)
    /\ WF_vars(OpResolves \/ OpRejects)
    /\ WF_vars(TimeoutFires)
    /\ WF_vars(SleepDone)

Settled == pc \in {"resolved", "rejected"}

----------------------------------------------------------------------------
(* Claims about withRetry *)

Last(s) == s[Len(s)]

\* every invocation made so far was rejected by the operation with status 429
AllRejected429 ==
    \A i \in 1..Len(failures) : failures[i].kind = "op" /\ failures[i].status = 429

\* C1: when every invocation rejects with status 429 and maxRetries = 3, the
\* operation is invoked exactly 3 times (never a 4th) and withRetry then
\* rejects with the error object of that rejection; both revisions.
C1_RetryExhaustion ==
    (maxRetries = 3 /\ AllRejected429) =>
        /\ invocations <= 3
        /\ (Settled /\ Len(failures) = invocations) =>
              /\ pc = "rejected"
              /\ invocations = 3
              /\ rejectedWith = OpError(3, 429, failures[3].resp)
              /\ rejectedWith = failures[3]

C1_Witness ==
    /\ rev = "timeout"
    /\ maxRetries = 3
    /\ pc = "rejected"
    /\ Len(failures) = 3
    /\ AllRejected429

\* C2: when the first invocation rejects with the non-retryable status 400,
\* the operation is invoked exactly once and withRetry rejects with that error
\* without any backoff sleep.
C2_ShortCircuit ==
    (Len(failures) >= 1 /\ failures[1].kind = "op" /\ failures[1].status = 400) =>
        /\ pc = "rejected"
        /\ invocations = 1
        /\ rejectedWith = failures[1]
        /\ rejectedWith.id = 1
        /\ delays = <<>>
        /\ sleepMs = 0

C2_Witness ==
    /\ maxRetries = 3
    /\ Len(failures) = 1
    /\ failures[1].kind = "op"
    /\ failures[1].status = 400
    /\ failures[1].resp = 503
    /\ pc = "rejected"

\* the retryable class as the specification words it: 429 or 5xx
Status5xxOr429(s) == s = 429 \/ (s >= 500 /\ s <= 599)

\* C3: after a failed invocation a backoff (hence another attempt) is
\* scheduled if and only if the classified status of the error is 429 or lies
\* in 500..599; any other error is rejected at once.  (Failure i was followed
\* by a backoff iff a i-th delay was recorded.)
C3_RetryIff429Or5xx ==
    \A i \in 1..Len(failures) :
        (i <= Len(delays)) <=> Status5xxOr429(ErrStatus(rev, failures[i]))

C3_Witness ==
    /\ Len(failures) = 1
    /\ failures[1].status = 600
    /\ pc = "sleeping"

\* C4: if invocation k (k <= maxRetries) resolves with v after all earlier
\* invocations failed with retryable errors, withRetry resolves with v and the
\* operation is not invoked again (the invocation count stays one more than
\* the number of failures).
C4_ResolveAfterRetries ==
    (opValue # NoValue) =>
        /\ pc = "resolved"
        /\ resolvedWith = opValue
        /\ invocations = Len(failures) + 1
        /\ invocations <= maxRetries
        /\ \A i \in 1..Len(failures) : IsRetryable(rev, failures[i])

C4_Witness ==
    /\ pc = "resolved"
    /\ resolvedWith = "v2"
    /\ invocations = 3
    /\ Len(failures) = 2
    /\ inFlight = {}

\* C5: whatever the sequence of failures, the error withRetry rejects with
\* is the error object caught in the last attempt it made, unwrapped: a
\* terminal error after retryable ones is passed on as is, and on exhaustion
\* the error of the final attempt, not of an earlier one, is rethrown.
C5_RejectsWithLastError ==
    (pc = "rejected" /\ failures # <<>>) =>
        /\ rejectedWith = Last(failures)
        /\ rejectedWith.id = invocations
        /\ rejectedWith.kind \in {"op", "timeout"}
        /\ Len(failures) = invocations

C5_Witness ==
    /\ pc = "rejected"
    /\ maxRetries = 2
    /\ Len(failures) = 2
    /\ Len(delays) = 2
    /\ failures[1].status = 429
    /\ failures[2].status = 500
    /\ rejectedWith = failures[2]

\* C6: withRetry enters a backoff sleep only after a retryable error with at
\* least one attempt remaining; when the last permitted attempt fails it
\* rejects without sleeping.
C6_SleepOnlyWithAttemptsLeft ==
    (pc = "sleeping") =>
        /\ IsRetryable(rev, lastError)
        /\ attempt + 1 < maxRetries

C6_Witness ==
    /\ pc = "sleeping"
    /\ maxRetries = 1
    /\ attempt = 0
    /\ lastError.status = 429

\* C7: the backoff sleep after the failure of attempt k (from 0) lasts
\* 2^k * 1000 ms: the delays of one call are 1000, 2000, 4000, ..., each
\* twice the one before, and the i-th delay follows the i-th failure.
C7_ExponentialBackoff ==
    /\ Len(delays) <= Len(failures)
    /\ Len(delays) >= 1 => delays[1] = 1000
    /\ \A i \in 2..Len(delays) : delays[i] = 2 * delays[i - 1]
    /\ (pc = "sleeping") =>
          /\ Len(delays) = attempt + 1
          /\ sleepMs = Last(delays)

C7_Witness ==
    /\ pc = "sleeping"
    /\ delays = <<1000, 2000, 4000>>

\* the invocations in flight, by position of the call
C8_InFlightInv ==
    /\ Cardinality(inFlight) <= 1
    /\ (pc = "pending") => inFlight = {invocations}
    /\ (pc = "sleeping") => inFlight = {}

\* C8: at most one invocation is in flight at any time, and a new invocation
\* starts only when the one before it has rejected and the backoff sleep that
\* followed has completed.
C8_Sequential ==
    /\ []C8_InFlightInv
    /\ [][(invocations' # invocations) =>
            /\ invocations' = invocations + 1
            /\ inFlight = {}
            /\ (invocations > 0) =>
                  /\ pc = "sleeping"
                  /\ Len(failures) = invocations
                  /\ Last(failures) = OpError(invocations, Last(failures).status, Last(failures).resp)
                  /\ Len(delays) = invocations]_vars

C8_Witness ==
    /\ rev = "timeout"
    /\ pc = "pending"
    /\ invocations = 3
    /\ inFlight = {3}
    /\ elapsed = TimeoutMs

\* an attempt ended by its 20000 ms timer
TimedOut == \E i \in 1..Len(failures) : failures[i].kind = "timeout"

\* C9: in the timeout revision, when an invocation has not settled within
\* 20000 ms withRetry rejects with the timeout error and invokes the
\* operation no more, even if attempts remain.
C9_TimeoutTerminal ==
    TimedOut =>
        /\ rev = "timeout"
        /\ pc = "rejected"
        /\ rejectedWith = TimeoutError(invocations)
        /\ Last(failures) = TimeoutError(invocations)
        /\ Len(failures) = invocations
        /\ Len(delays) = invocations - 1

C9_Witness ==
    /\ TimedOut
    /\ maxRetries = 3
    /\ invocations = 2
    /\ attempt = 1
    /\ inFlight = {2}

\* withRetry stopped for one of its own reasons: success, a terminal error,
\* or the attempts running out
StoppedByItself ==
    \/ pc = "resolved"
    \/ pc = "rejected" /\ failures # <<>> /\ ~IsRetryable(rev, Last(failures))
    \/ pc = "rejected" /\ invocations = maxRetries /\ Len(delays) = maxRetries

\* C10: provided every invocation eventually settles, every call
\* withRetry(op, n) eventually settles, having invoked the operation at most n
\* times, and nothing but success, a terminal error or exhaustion ends it
\* (n is a count: for n < 0 the call settles without any invocation).
C10_Terminates ==
    /\ <>Settled
    /\ [](maxRetries >= 0 => invocations <= maxRetries)
    /\ [](maxRetries < 0 => invocations = 0)
    /\ []((Settled /\ maxRetries >= 0) => StoppedByItself)

C10_Witness ==
    /\ pc = "rejected"
    /\ maxRetries = 3
    /\ invocations = 3
    /\ Len(delays) = 3

\* C30: withRetry called with maxRetries <= 0 never invokes the operation
\* and settles at once by rejecting with the never-assigned lastError
\* (undefined); both revisions.
C30_NoAttemptRejects ==
    maxRetries <= 0 =>
        /\ invocations = 0
        /\ pc \in {"idle", "rejected"}
        /\ pc = "rejected" => rejectedWith = UndefinedError
        /\ resolvedWith = NoValue
        /\ ~ENABLED (Tick \/ OpResolves \/ OpRejects \/ TimeoutFires \/ SleepDone)

C30_Witness ==
    /\ maxRetries = -1
    /\ pc = "rejected"
    /\ invocations = 0
    /\ rejectedWith = UndefinedError

----------------------------------------------------------------------------
(* Part 2: sanitizeMermaid.  Strings and the JS string primitives. *)

UpperChars == <<"A","B","C","D","E","F","G","H","I","J","K","L","M",
                "N","O","P","Q","R","S","T","U","V","W","X","Y","Z">>
LowerChars == <<"a","b","c","d","e","f","g","h","i","j","k","l","m",
                "n","o","p","q","r","s","t","u","v","w","x","y","z">>
Letters == {UpperChars[i] : i \in 1..26} \cup {LowerChars[i] : i \in 1..26}
Digits == {"0","1","2","3","4","5","6","7","8","9"}

\* \s (and the characters String.prototype.trim removes)
WsChars == {" ", "\t", "\n", "\r"}
\* [a-zA-Z0-9_\-]
IdChars == Letters \cup Digits \cup {"_", "-"}
\* [a-zA-Z0-9_.\-]
IdDotChars == IdChars \cup {"."}
\* [\[\(\{] and [\]\)\}]
OpenChars == {"[", "(", "{"}
CloseChars == {"]", ")", "}"}

\* toLowerCase of one character; the i flag compares characters through it
ToLower(c) ==
    IF \E i \in 1..26 : UpperChars[i] = c
    THEN LowerChars[CHOOSE i \in 1..26 : UpperChars[i] = c]
    ELSE c
LowerStr(s) == [i \in 1..Len(s) |-> ToLower(s[i])]

\* s.slice(i - 1): the suffix of s that starts at position i
From(s, i) == SubSeq(s, i, Len(s))

\* literal p occurs in s at position i
HasAt(s, p, i) ==
    /\ i >= 1
    /\ i + Len(p) - 1 <= Len(s)
    /\ SubSeq(s, i, i + Len(p) - 1) = p
\* the same under the i flag (p is lower case)
HasAtNoCase(s, p, i) ==
    /\ i >= 1
    /\ i + Len(p) - 1 <= Len(s)
    /\ LowerStr(SubSeq(s, i, i + Len(p) - 1)) = p

\* s.startsWith(p), s.endsWith(p)
StartsWith(s, p) == HasAt(s, p, 1)
EndsWith(s, p) == HasAt(s, p, Len(s) - Len(p) + 1)

\* a greedy character-class run: the first position >= i not in class
RECURSIVE RunEnd(_, _, _)
RunEnd(s, i, class) ==
    IF i > Len(s) \/ s[i] \notin class THEN i ELSE RunEnd(s, i + 1, class)

\* first position >= i where p occurs, 0 when there is none (a lazy .*? / .+?
\* followed by the literal p stops there)
RECURSIVE FindLit(_, _, _)
FindLit(s, p, i) ==
    IF i + Len(p) - 1 > Len(s) THEN 0
    ELSE IF HasAt(s, p, i) THEN i
    ELSE FindLit(s, p, i + 1)

\* first position >= i holding a character of class, 0 when there is none
RECURSIVE FindIn(_, _, _)
FindIn(s, class, i) ==
    IF i > Len(s) THEN 0
    ELSE IF s[i] \in class THEN i
    ELSE FindIn(s, class, i + 1)

\* last position <= i holding a character outside class, 0 when there is none
RECURSIVE LastNotIn(_, _, _)
LastNotIn(s, class, i) ==
    IF i < 1 THEN 0
    ELSE IF s[i] \notin class THEN i
    ELSE LastNotIn(s, class, i - 1)

\* String.prototype.trim
Trim(s) == SubSeq(s, RunEnd(s, 1, WsChars), LastNotIn(s, WsChars, Len(s)))

\* s.replace(/[class]/g, c)
ReplaceChars(s, class, c) == [i \in 1..Len(s) |-> IF s[i] \in class THEN c ELSE s[i]]

\* s.split('\n'): always at least one line
RECURSIVE Split(_)
Split(s) ==
    IF FindLit(s, <<"\n">>, 1) = 0 THEN <<s>>
    ELSE <<SubSeq(s, 1, FindLit(s, <<"\n">>, 1) - 1)>>
         \o Split(From(s, FindLit(s, <<"\n">>, 1) + 1))

\* lines.join('\n')
RECURSIVE Join(_)
Join(lines) ==
    IF Len(lines) = 0 THEN <<>>
    ELSE IF Len(lines) = 1 THEN lines[1]
    ELSE lines[1] \o <<"\n">> \o Join(Tail(lines))

\* s.replace(/p/g, r) for a literal p
RECURSIVE ReplaceLit(_, _, _)
ReplaceLit(s, p, r) ==
    IF FindLit(s, p, 1) = 0 THEN s
    ELSE SubSeq(s, 1, FindLit(s, p, 1) - 1) \o r
         \o ReplaceLit(From(s, FindLit(s, p, 1) + Len(p)), p, r)

\* the diagram-type keywords of the header regular expression, lower case
KwGraph == <<"g","r","a","p","h">>
KwFlowchart == <<"f","l","o","w","c","h","a","r","t">>
KwSequence == <<"s","e","q","u","e","n","c","e","d","i","a","g","r","a","m">>
KwClass == <<"c","l","a","s","s","d","i","a","g","r","a","m">>
KwState == <<"s","t","a","t","e","d","i","a","g","r","a","m">>
KwEr == <<"e","r","d","i","a","g","r","a","m">>
KwGantt == <<"g","a","n","t","t">>
KwPie == <<"p","i","e">>
KwGit == <<"g","i","t","g","r","a","p","h">>
\* in the order of the alternation
HeaderKeywords == <<KwGraph, KwFlowchart, KwSequence, KwClass, KwState, KwEr,
                    KwGantt, KwPie, KwGit>>

FlowchartTD == <<"f","l","o","w","c","h","a","r","t"," ","T","D">>

\* the alternative of /^(k1|k2|...)/i that matches at the start of s: its
\* index in kws, 0 when none does
RECURSIVE KeywordAt(_, _, _)
KeywordAt(s, kws, n) ==
    IF n > Len(kws) THEN 0
    ELSE IF HasAtNoCase(s, kws[n], 1) THEN n
    ELSE KeywordAt(s, kws, n + 1)

\* s.match(/^(graph|flowchart|sequenceDiagram|classDiagram|stateDiagram|
\*           erDiagram|gantt|pie|gitGraph)/i)
MatchesHeader(s) == KeywordAt(s, HeaderKeywords, 1) # 0

----------------------------------------------------------------------------
(* The global passes *)

\* the backquote character (written BQ: the character itself cannot be
\* written in a string of this language)
BackQuote == "BQ"
Fence == <<BackQuote, BackQuote, BackQuote>>
FenceMermaid == Fence \o <<"m","e","r","m","a","i","d">>

\* .replace(/FENCEmermaid\n?|FENCE/g, '') where FENCE is three backquotes
RECURSIVE StripFences(_)
StripFences(s) ==
    IF s = <<>> THEN <<>>
    ELSE IF HasAt(s, FenceMermaid, 1)
         THEN StripFences(From(s, IF HasAt(s, <<"\n">>, Len(FenceMermaid) + 1)
                                  THEN Len(FenceMermaid) + 2
                                  ELSE Len(FenceMermaid) + 1))
    ELSE IF HasAt(s, Fence, 1) THEN StripFences(From(s, Len(Fence) + 1))
    ELSE <<s[1]>> \o StripFences(Tail(s))

\* where /^[\d]+\.\s*/m matching at position i of s ends (the position after
\* the match), 0 when it does not match there
NumberingEnd(s, i) ==
    IF /\ (i = 1 \/ s[i - 1] = "\n")
       /\ RunEnd(s, i, Digits) > i
       /\ HasAt(s, <<".">>, RunEnd(s, i, Digits))
    THEN RunEnd(s, RunEnd(s, i, Digits) + 1, WsChars)
    ELSE 0

\* .replace(/^[\d]+\.\s*/gm, ''), from position i on
RECURSIVE StripNumberingFrom(_, _)
StripNumberingFrom(s, i) ==
    IF i > Len(s) THEN <<>>
    ELSE IF NumberingEnd(s, i) # 0 THEN StripNumberingFrom(s, NumberingEnd(s, i))
    ELSE <<s[i]>> \o StripNumberingFrom(s, i + 1)

StripNumbering(s) == StripNumberingFrom(s, 1)

\* .replace(/a\s*b/g, r) for literals a and b (b does not start with white
\* space): /--\s*>/, /-\s*->/, /=\s*=>/, /-\.\s*->/
RECURSIVE FixSpacedArrow(_, _, _, _)
FixSpacedArrow(s, a, b, r) ==
    IF s = <<>> THEN <<>>
    ELSE IF HasAt(s, a, 1) /\ HasAt(s, b, RunEnd(s, Len(a) + 1, WsChars))
         THEN r \o FixSpacedArrow(From(s, RunEnd(s, Len(a) + 1, WsChars) + Len(b)), a, b, r)
    ELSE <<s[1]>> \o FixSpacedArrow(Tail(s), a, b, r)

\* where /c{1,}\s*cc>/ (c is - or =) matching at the start of s ends, 0 when
\* it does not match.  The run of c is greedy: either all of it, white space
\* and then cc>, or, giving characters back, the run itself ends in cc>.
RunArrowEnd(s, c) ==
    IF RunEnd(s, 1, {c}) = 1 THEN 0
    ELSE IF HasAt(s, <<c, c, ">">>, RunEnd(s, RunEnd(s, 1, {c}), WsChars))
         THEN RunEnd(s, RunEnd(s, 1, {c}), WsChars) + 3
    ELSE IF RunEnd(s, 1, {c}) >= 4 /\ HasAt(s, <<">">>, RunEnd(s, 1, {c}))
         THEN RunEnd(s, 1, {c}) + 1
    ELSE 0

\* .replace(/-{1,}\s*-->/g, ' --> ') and .replace(/={1,}\s*==>/g, ' ==> ')
RECURSIVE FixRunArrow(_, _)
FixRunArrow(s, c) ==
    IF s = <<>> THEN <<>>
    ELSE IF RunArrowEnd(s, c) # 0
         THEN <<" ", c, c, ">", " ">> \o FixRunArrow(From(s, RunArrowEnd(s, c)), c)
    ELSE <<s[1]>> \o FixRunArrow(Tail(s), c)

\* revisions B and C: "2. Fix common AI arrow mistakes"
FixArrowsBC(s) ==
    FixSpacedArrow(
        FixSpacedArrow(
            FixSpacedArrow(s, <<"-","-">>, <<">">>, <<"-","-",">">>),
            <<"-">>, <<"-",">">>, <<"-","-",">">>),
        <<"=">>, <<"=",">">>, <<"=","=",">">>)

\* revision A: "Phase 1: Aggressive global fixes"
FixArrowsA(s) ==
    FixSpacedArrow(
        FixRunArrow(
            FixRunArrow(
                ReplaceLit(ReplaceLit(s, <<"&","l","t",";">>, <<"<">>),
                           <<"&","g","t",";">>, <<">">>),
                "-"),
            "="),
        <<"-",".">>, <<"-",">">>, <<" ","-",".","-",">"," ">>)

----------------------------------------------------------------------------
(* Revision B, src/components/Diagram.tsx:438-518 *)

\* lines.findIndex(l => l.trim().match(headerRegex)), from line n on; 0: -1
RECURSIVE HeaderIndexFrom(_, _)
HeaderIndexFrom(lines, n) ==
    IF n > Len(lines) THEN 0
    ELSE IF MatchesHeader(Trim(lines[n])) THEN n
    ELSE HeaderIndexFrom(lines, n + 1)

HeaderIndex(lines) == HeaderIndexFrom(lines, 1)

\* header.replace(headerRegex, (match) => match.toLowerCase())
LowerKeyword(h) ==
    HeaderKeywords[KeywordAt(h, HeaderKeywords, 1)]
        \o From(h, Len(HeaderKeywords[KeywordAt(h, HeaderKeywords, 1)]) + 1)

Directions == {<<"t","d">>, <<"t","b">>, <<"b","t">>, <<"r","l">>, <<"l","r">>}

\* header.match(/\s+(TD|TB|BT|RL|LR)$/i)
EndsInDirection(h) ==
    /\ Len(h) >= 3
    /\ LowerStr(SubSeq(h, Len(h) - 1, Len(h))) \in Directions
    /\ h[Len(h) - 2] \in WsChars

\* mutant of NormalizeHeader: the direction is not checked
NormalizeHeader_NoDirectionCheck(h) == LowerKeyword(h)

\* lines 458-467: the header, trimmed, with its keyword in lower case and,
\* for graph and flowchart, replaced when it does not end in a direction
NormalizeHeader(h) ==
    IF /\ (HasAt(LowerKeyword(h), KwGraph, 1) \/ HasAt(LowerKeyword(h), KwFlowchart, 1))
       /\ ~EndsInDirection(LowerKeyword(h))
    THEN FlowchartTD
    ELSE LowerKeyword(h)

\* l.replace(/"([a-zA-Z0-9_\-]+)"/g, '$1')
RECURSIVE UnquoteIds(_)
UnquoteIds(s) ==
    IF s = <<>> THEN <<>>
    ELSE IF /\ s[1] = "\""
            /\ RunEnd(s, 2, IdChars) > 2
            /\ HasAt(s, <<"\"">>, RunEnd(s, 2, IdChars))
         THEN SubSeq(s, 2, RunEnd(s, 2, IdChars) - 1)
              \o UnquoteIds(From(s, RunEnd(s, 2, IdChars) + 1))
    ELSE <<s[1]>> \o UnquoteIds(Tail(s))

\* the alternatives of nodeRegex, in order: <<open, close>>
ShapesB == <<
    << <<"[","(">>, <<")","]">> >>,
    << <<"[","[">>, <<"]","]">> >>,
    << <<"{","{">>, <<"}","}">> >>,
    << <<"(","(">>, <<")",")">> >>,
    << <<"[","/">>, <<"\\","]">> >>,
    << <<"[","\\">>, <<"/","]">> >>,
    << <<"[">>, <<"]">> >>,
    << <<"(">>, <<")">> >>,
    << <<"{">>, <<"}">> >>,
    << <<">">>, <<"]">> >> >>

\* where the closing delimiter of alternative sh = (open)(.+?)(close) is found
\* when the alternative is tried at position k, 0 when it does not match
ShapeClose(s, k, sh) ==
    IF HasAt(s, sh[1], k) THEN FindLit(s, sh[2], k + Len(sh[1]) + 1) ELSE 0

\* the first alternative, from the n-th on, that matches at position k; 0: none
RECURSIVE ShapeAt(_, _, _)
ShapeAt(s, k, n) ==
    IF n > Len(ShapesB) THEN 0
    ELSE IF ShapeClose(s, k, ShapesB[n]) # 0 THEN n
    ELSE ShapeAt(s, k, n + 1)

\* lines 502-513: the label as emitted, quotes included
CleanLabelB(label) ==
    <<"\"">>
    \o ReplaceChars(
          IF /\ StartsWith(Trim(label), <<"\"">>)
             /\ EndsWith(Trim(label), <<"\"">>)
             /\ Len(Trim(label)) >= 2
          THEN SubSeq(Trim(label), 2, Len(Trim(label)) - 1)
          ELSE Trim(label),
          {"\""}, "'")
    \o <<"\"">>

\* the match of nodeRegex at the start of s, if any:
\* [ok, end (position after the match), id, open, label, close]
NodeMatchB(s) ==
    LET j == RunEnd(s, 1, IdChars)
        k == RunEnd(s, j, WsChars)
        n == IF j > 1 THEN ShapeAt(s, k, 1) ELSE 0
        p == IF n = 0 THEN 0 ELSE ShapeClose(s, k, ShapesB[n])
    IN  IF n = 0
        THEN [ok |-> FALSE, end |-> 0, id |-> <<>>, open |-> <<>>, label |-> <<>>, close |-> <<>>]
        ELSE [ok |-> TRUE,
              end |-> p + Len(ShapesB[n][2]),
              id |-> SubSeq(s, 1, j - 1),
              open |-> ShapesB[n][1],
              label |-> SubSeq(s, k + Len(ShapesB[n][1]), p - 1),
              close |-> ShapesB[n][2]]

\* the replace callback of lines 488-514
NodeCallbackB(s, m) ==
    IF m.label = <<>> THEN SubSeq(s, 1, m.end - 1)
    ELSE m.id \o m.open \o CleanLabelB(m.label) \o m.close

\* l.replace(nodeRegex, callback)
RECURSIVE ReplaceNodesB(_)
ReplaceNodesB(s) ==
    IF s = <<>> THEN <<>>
    ELSE IF NodeMatchB(s).ok
         THEN NodeCallbackB(s, NodeMatchB(s)) \o ReplaceNodesB(From(s, NodeMatchB(s).end))
    ELSE <<s[1]>> \o ReplaceNodesB(Tail(s))

Comment == <<"%","%">>

\* the map callback of lines 474-515
SanLineB(line) ==
    IF \/ Trim(line) = <<>>
       \/ MatchesHeader(Trim(line))
       \/ StartsWith(Trim(line), Comment)
    THEN Trim(line)
    ELSE ReplaceNodesB(UnquoteIds(Trim(line)))

\* lines 452-471: the header is normalized where it is found, or inserted
WithHeaderB(lines) ==
    IF HeaderIndex(lines) # 0
    THEN [lines EXCEPT ![HeaderIndex(lines)] = NormalizeHeader(Trim(lines[HeaderIndex(lines)]))]
    ELSE <<FlowchartTD>> \o lines

\* lines 440-452: the global passes, then processed.split
LinesB(raw) == Split(FixArrowsBC(Trim(StripNumbering(StripFences(raw)))))

SanitizeB(raw) ==
    LET lines == WithHeaderB(LinesB(raw))
    IN  Join([i \in 1..Len(lines) |-> SanLineB(lines[i])])

----------------------------------------------------------------------------
\* Revisions A and C share the shape of their node regular expression:
\*   A: /(ID+)\s*([\[\(\{]{1,2})(.*?)([\]\)\}]{1,2})(ID*)/g, ID = [a-zA-Z0-9_.\-]
\*   C: /(ID+)\s*([\[\(\{]{1,2})(.*?)([\]\)\}]{1,2})/g,      ID = [a-zA-Z0-9_\-]

NoMatch == [ok |-> FALSE, end |-> 0, id |-> <<>>, open |-> <<>>, label |-> <<>>, close |-> <<>>]

\* the match at the start of s, if any, with identifier class idClass; the
\* trailing group of revision A (suffix = TRUE) is matched and dropped
NodeMatchAC(s, idClass, suffix) ==
    LET j == RunEnd(s, 1, idClass)
        k == RunEnd(s, j, WsChars)
        ol == IF k + 1 <= Len(s) /\ s[k + 1] \in OpenChars THEN 2 ELSE 1
        p == FindIn(s, CloseChars, k + ol)
        cl == IF p + 1 <= Len(s) /\ s[p + 1] \in CloseChars THEN 2 ELSE 1
    IN  IF j = 1 \/ k > Len(s) THEN NoMatch
        ELSE IF s[k] \notin OpenChars \/ p = 0 THEN NoMatch
        ELSE [ok |-> TRUE,
              end |-> IF suffix THEN RunEnd(s, p + cl, idClass) ELSE p + cl,
              id |-> SubSeq(s, 1, j - 1),
              open |-> SubSeq(s, k, k + ol - 1),
              label |-> SubSeq(s, k + ol, p - 1),
              close |-> SubSeq(s, p, p + cl - 1)]

----------------------------------------------------------------------------
(* Revision A, src/components/Diagram.tsx:84-138 *)

\* id.trim().replace(/[^a-zA-Z0-9]/g, '_')
CleanIdA(id) ==
    [i \in 1..Len(Trim(id)) |->
        IF Trim(id)[i] \in Letters \cup Digits THEN Trim(id)[i] ELSE "_"]

\* .replace(/[\"\'\|]/g, ' ').replace(/[\[\]\(\)]/g, ' ').trim()
ScrubA(t) ==
    Trim(ReplaceChars(ReplaceChars(t, {"\"", "'", "|"}, " "), {"[", "]", "(", ")"}, " "))

\* lines 110-119: the label as emitted, quotes included
CleanLabelA(label) ==
    IF ~StartsWith(Trim(label), <<"\"">>) \/ ~EndsWith(Trim(label), <<"\"">>)
    THEN <<"\"">> \o ScrubA(Trim(label)) \o <<"\"">>
    ELSE <<"\"">> \o ScrubA(SubSeq(Trim(label), 2, Len(Trim(label)) - 1)) \o <<"\"">>

\* l.replace(nodeRegex, callback), lines 108-122
RECURSIVE ReplaceNodesA(_)
ReplaceNodesA(s) ==
    IF s = <<>> THEN <<>>
    ELSE IF NodeMatchAC(s, IdDotChars, TRUE).ok
         THEN LET m == NodeMatchAC(s, IdDotChars, TRUE)
              IN  CleanIdA(m.id) \o m.open \o CleanLabelA(m.label) \o m.close
                  \o ReplaceNodesA(From(s, m.end))
    ELSE <<s[1]>> \o ReplaceNodesA(Tail(s))

\* where /([a-zA-Z0-9_.\-]+)\s*>\s*([a-zA-Z0-9_.\-]+)/ matching at the start
\* of s ends, 0 when it does not match
GtArrowEnd(s) ==
    LET j == RunEnd(s, 1, IdDotChars)
        k == RunEnd(s, j, WsChars)
        m == RunEnd(s, k + 1, WsChars)
    IN  IF j > 1 /\ HasAt(s, <<">">>, k) /\ RunEnd(s, m, IdDotChars) > m
        THEN RunEnd(s, m, IdDotChars)
        ELSE 0

\* line 125: l.replace(/(id)\s*>\s*(id)/g, '$1 --> $2')
RECURSIVE GtArrows(_)
GtArrows(s) ==
    IF s = <<>> THEN <<>>
    ELSE IF GtArrowEnd(s) # 0
         THEN SubSeq(s, 1, RunEnd(s, 1, IdDotChars) - 1)
              \o <<" ","-","-",">"," ">>
              \o SubSeq(s, RunEnd(s, RunEnd(s, RunEnd(s, 1, IdDotChars), WsChars) + 1, WsChars),
                        GtArrowEnd(s) - 1)
              \o GtArrows(From(s, GtArrowEnd(s)))
    ELSE <<s[1]>> \o GtArrows(Tail(s))

\* the alternatives (-->|==>|-\.>|-\|) in order
EdgeArrowsA == << <<"-","-",">">>, <<"=","=",">">>, <<"-",".",">">>, <<"-","|">> >>

\* the first alternative, from the n-th on, with which
\* /(-->|==>|-\.>|-\|)\|([^|]+)\|/ matches at the start of s; 0: none
RECURSIVE EdgeArrowAt(_, _)
EdgeArrowAt(s, n) ==
    IF n > Len(EdgeArrowsA) THEN 0
    ELSE IF /\ HasAt(s, EdgeArrowsA[n] \o <<"|">>, 1)
            /\ FindLit(s, <<"|">>, Len(EdgeArrowsA[n]) + 2) > Len(EdgeArrowsA[n]) + 2
         THEN n
    ELSE EdgeArrowAt(s, n + 1)

\* lines 128-132
RECURSIVE EdgeLabelsA(_)
EdgeLabelsA(s) ==
    IF s = <<>> THEN <<>>
    ELSE IF EdgeArrowAt(s, 1) # 0
         THEN LET arrow == EdgeArrowsA[EdgeArrowAt(s, 1)]
                  p == FindLit(s, <<"|">>, Len(arrow) + 2)
                  label == SubSeq(s, Len(arrow) + 2, p - 1)
              IN  (IF StartsWith(Trim(label), <<"\"">>) /\ EndsWith(Trim(label), <<"\"">>)
                   THEN SubSeq(s, 1, p)
                   ELSE arrow \o <<"|", "\"">>
                        \o Trim(ReplaceChars(label, {"\"", "'", "|", "[", "]", "(", ")"}, " "))
                        \o <<"\"", "|">>)
                  \o EdgeLabelsA(From(s, p + 1))
    ELSE <<s[1]>> \o EdgeLabelsA(Tail(s))

\* the map callback of lines 102-135
SanLineA(line) ==
    IF Trim(line) = <<>> \/ StartsWith(Trim(line), Comment)
    THEN Trim(line)
    ELSE EdgeLabelsA(GtArrows(ReplaceNodesA(Trim(line))))

\* the value of lines[n - 1]; undefined beyond the array
UndefinedLine == <<"undefined">>
LineAt(lines, n) == IF n \in 1..Len(lines) THEN lines[n] ELSE UndefinedLine

\* mutant of HeaderLine: the second line instead of the first
HeaderLine_OffByOne(lines) == LineAt(lines, 2)

\* lines[0], the line revisions A and C look for the header in
HeaderLine(lines) == LineAt(lines, 1)

\* lines 97-99 (part_002:44-46): the header is inserted when the first line
\* has none
WithHeaderAC(lines) ==
    IF Len(lines) > 0 /\ ~MatchesHeader(HeaderLine(lines))
    THEN <<FlowchartTD>> \o lines
    ELSE lines

\* lines 86-94: the global passes, then processed.split
LinesA(raw) == Split(Trim(FixArrowsA(raw)))

SanitizeA(raw) ==
    LET lines == WithHeaderAC(LinesA(raw))
    IN  Join([i \in 1..Len(lines) |-> SanLineA(lines[i])])

----------------------------------------------------------------------------
(* Revision C, src/unnamed/part_002:33-62 *)

DirectionsC == {<<"t","d">>, <<"l","r">>, <<"b","t">>, <<"r","l">>}

\* line 41: .replace(/^(flowchart|graph)\s+(TD|LR|BT|RL)\s*([^\s\n])/i,
\*                   '$1 $2\n$3')
SplitHeaderC(s) ==
    LET n == KeywordAt(s, <<KwFlowchart, KwGraph>>, 1)
        a == IF n = 1 THEN Len(KwFlowchart) + 1 ELSE Len(KwGraph) + 1
        b == RunEnd(s, a, WsChars)
        c == RunEnd(s, b + 2, WsChars)
    IN  IF /\ n # 0
           /\ b > a
           /\ b + 1 <= Len(s)
           /\ LowerStr(SubSeq(s, b, b + 1)) \in DirectionsC
           /\ c <= Len(s)
        THEN SubSeq(s, 1, a - 1) \o <<" ">> \o SubSeq(s, b, b + 1) \o <<"\n">> \o From(s, c)
        ELSE s

\* lines 53-57: the label as emitted
CleanLabelC(label) ==
    IF Trim(label) # <<>> /\ ~StartsWith(Trim(label), <<"\"">>)
    THEN <<"\"">> \o ReplaceChars(Trim(label), {"\""}, "'") \o <<"\"">>
    ELSE Trim(label)

\* l.replace(nodeRegex, callback), lines 52-58
RECURSIVE ReplaceNodesC(_)
ReplaceNodesC(s) ==
    IF s = <<>> THEN <<>>
    ELSE IF NodeMatchAC(s, IdChars, FALSE).ok
         THEN LET m == NodeMatchAC(s, IdChars, FALSE)
              IN  m.id \o m.open \o CleanLabelC(m.label) \o m.close
                  \o ReplaceNodesC(From(s, m.end))
    ELSE <<s[1]>> \o ReplaceNodesC(Tail(s))

\* the map callback of lines 48-59
SanLineC(line) ==
    IF \/ Trim(line) = <<>>
       \/ KeywordAt(Trim(line), <<KwGraph, KwFlowchart, KwSequence>>, 1) # 0
       \/ StartsWith(Trim(line), Comment)
    THEN Trim(line)
    ELSE ReplaceNodesC(Trim(line))

\* lines 34-43: the global passes, then processed.split
LinesC(raw) == Split(SplitHeaderC(FixArrowsBC(Trim(StripFences(raw)))))

SanitizeC(raw) ==
    LET lines == WithHeaderAC(LinesC(raw))
    IN  Join([i \in 1..Len(lines) |-> SanLineC(lines[i])])

----------------------------------------------------------------------------
(* The calls of sanitizeMermaid: Diagram's renderDiagram passes the chart    *)
(* text; the second call feeds the result back (idempotence).               *)

SanRevisions == {"A", "B", "C"}

SanitizeMermaid(r, raw) ==
    IF r = "A" THEN SanitizeA(raw)
    ELSE IF r = "B" THEN SanitizeB(raw)
    ELSE SanitizeC(raw)

\* the lines of the text after the global passes
LinesOf(r, raw) ==
    IF r = "A" THEN LinesA(raw)
    ELSE IF r = "B" THEN LinesB(raw)
    ELSE LinesC(raw)

\* a TypeError: a method is called on an undefined line (lines[0].match in
\* revisions A and C, lines[headerIndex].trim in revision B)
Throws(r, raw) ==
    IF r = "B"
    THEN /\ HeaderIndex(LinesB(raw)) # 0
         /\ LineAt(LinesB(raw), HeaderIndex(LinesB(raw))) = UndefinedLine
    ELSE /\ Len(LinesOf(r, raw)) > 0
         /\ HeaderLine(LinesOf(r, raw)) = UndefinedLine

(* Bound of the inputs: lines after the first body line *)
MaxExtraLines == 1

Str_flowchartTD == FlowchartTD \o <<"\n">>
Str_graphLR == <<"g","r","a","p","h"," ","L","R","\n">>
Str_graphTDA == <<"g","r","a","p","h"," ","T","D","A","\n">>
Str_graph == <<"g","r","a","p","h","\n">>
Str_Graphtd == <<"G","r","a","p","h"," ","t","d","\n">>
Str_sequence == <<"s","e","q","u","e","n","c","e","D","i","a","g","r","a","m","\n">>
Str_lateHeader == <<"x","\n","g","r","a","p","h"," ","T","D","\n">>
Str_fenced == <<BackQuote,BackQuote,BackQuote,"m","e","r","m","a","i","d","\n","g","r","a","p","h"," ","R","L","\n">>

\* what precedes the first body line: nothing, a header, a line and a header
SanPrefixes == {<<>>, Str_flowchartTD, Str_graphLR, Str_graphTDA, Str_graph,
                Str_Graphtd, Str_sequence, Str_lateHeader, Str_fenced}

Node_A == <<"A">>
Node_B == <<"B">>
Node_Aqx == <<"A","[","\"","x","\"","]">>
Node_By == <<"B","[","y","]">>
Node_Aempty == <<"A","[","]">>
Node_Ablank == <<"A","[", " ", "]">>
Node_Hello == <<"A","[","H","e","l","l","o"," ","\"","W","o","r","l","d","\"","]">>
Node_Aqxy == <<"A","[","\"","x","\""," ","y","]">>

SanNodes == {Node_A, Node_B, Node_Aqx, Node_By, Node_Aempty, Node_Ablank,
             Node_Hello, Node_Aqxy}

\* the nodes an edge may end in
SanTargets == {Node_B, Node_By}

Arrow_Plain == <<" ","-","-",">"," ">>
Arrow_Thick == <<" ","=","=",">"," ">>
Arrow_Dotted == <<" ","-",".","-",">"," ">>
Arrow_Broken == <<" ","-","-"," ","-","-",">"," ">>
Arrow_Spaced == <<" ","-","-"," ",">"," ">>

SanArrows == {Arrow_Plain, Arrow_Thick, Arrow_Dotted, Arrow_Broken, Arrow_Spaced}

Line_Comment == <<"%","%"," ","n","o","t","e">>
Line_CommentArrow == <<"%","%"," ","A"," ","-","-"," ",">"," ","B">>
Line_CommentBroken == <<"%","%"," ","A"," ","-","-"," ","-","-",">"," ","B"," ","&","l","t",";">>
Line_Numbered == <<"1","."," ","A"," ","-","-",">"," ","B">>
Line_EdgeLabel == <<"A"," ","-","-",">","|","x","|"," ","B">>
Line_Unbalanced == <<"A","[","\"">>
Line_Blank == <<" "," ">>

\* the first body line: a node, an edge between two nodes, or a special line
SanBodyLines ==
    SanNodes
    \cup {n1 \o a \o n2 : n1 \in SanNodes, a \in SanArrows, n2 \in SanTargets}
    \cup {<<>>, Line_Blank, Line_Comment, Line_CommentArrow, Line_CommentBroken,
          Line_Numbered, Line_EdgeLabel, Line_Unbalanced}

\* the lines that may follow it
SanExtraLines == {<<"B"," ","-","-",">"," ","A">>}

RECURSIVE SanExtras(_)
SanExtras(n) ==
    IF n = 0 THEN {<<>>}
    ELSE SanExtras(n - 1)
         \cup {t \o <<"\n">> \o x : t \in SanExtras(n - 1), x \in SanExtraLines}

SanInputs ==
    {p \o l \o t : p \in SanPrefixes, l \in SanBodyLines, t \in SanExtras(MaxExtraLines)}

SanInit ==
    /\ rev = "plain"
    /\ maxRetries = 0
    /\ pc = "idle"
    /\ attempt = 0
    /\ lastError = UndefinedError
    /\ invocations = 0
    /\ inFlight = {}
    /\ timers = {}
    /\ elapsed = 0
    /\ sleepMs = 0
    /\ resolvedWith = NoValue
    /\ rejectedWith = UndefinedError
    /\ opValue = NoValue
    /\ failures = <<>>
    /\ delays = <<>>
    /\ sanRev \in SanRevisions
    /\ sanInput \in SanInputs
    /\ sanPc = "ready"
    /\ sanOut = <<>>
    /\ sanOut2 = <<>>
    /\ AppIdle

\* sanitizeMermaid(chart)
SanitizeOnce ==
    /\ sanPc = "ready"
    /\ IF Throws(sanRev, sanInput)
       THEN sanPc' = "threw" /\ sanOut' = <<>>
       ELSE sanPc' = "once" /\ sanOut' = SanitizeMermaid(sanRev, sanInput)
    /\ UNCHANGED <<retryVars, appVars, sanRev, sanInput, sanOut2>>

\* sanitizeMermaid applied to its own result
SanitizeTwice ==
    /\ sanPc = "once"
    /\ IF Throws(sanRev, sanOut)
       THEN sanPc' = "threw" /\ sanOut2' = <<>>
       ELSE sanPc' = "twice" /\ sanOut2' = SanitizeMermaid(sanRev, sanOut)
    /\ UNCHANGED <<retryVars, appVars, sanRev, sanInput, sanOut>>

SanNext ==
    \/ SanitizeOnce
    \/ SanitizeTwice

SanSpec == SanInit /\ [][SanNext]_vars

----------------------------------------------------------------------------
(* Claims about sanitizeMermaid                                              *)

\* already-valid diagram text: a valid header line, then lines of plain
\* identifiers, double-quoted node labels and the arrows -->, ==>, -.->
ValidPrefixes == {Str_flowchartTD, Str_graphLR}
ValidNodes == {Node_A, Node_B, Node_Aqx}
ValidArrows == {Arrow_Plain, Arrow_Thick, Arrow_Dotted}
ValidBodyLines ==
    ValidNodes \cup {n1 \o a \o Node_B : n1 \in ValidNodes, a \in ValidArrows}
ValidInputs ==
    {p \o l \o t : p \in ValidPrefixes, l \in ValidBodyLines,
                   t \in SanExtras(MaxExtraLines)}

\* C11: in each revision, sanitizing an already-valid diagram text twice
\* gives the same text as sanitizing it once.
C11_Idempotent ==
    (sanPc = "twice" /\ sanInput \in ValidInputs) => sanOut2 = sanOut

\* revision A turns the valid edge A --> B into A -- --> B, and that into
\* A  -- --> B on the second pass
C11_Witness ==
    /\ sanPc = "twice"
    /\ sanRev = "A"
    /\ sanInput = <<"f","l","o","w","c","h","a","r","t"," ","T","D","\n","A"," ","-","-",">"," ","B">>
    /\ sanInput \in ValidInputs
    /\ sanOut = <<"f","l","o","w","c","h","a","r","t"," ","T","D","\n","A"," ","-","-"," ","-","-",">"," ","B">>
    /\ sanOut2 = <<"f","l","o","w","c","h","a","r","t"," ","T","D","\n","A"," "," ","-","-"," ","-","-",">"," ","B">>

\* s contains the text p
Contains(s, p) == FindLit(s, p, 1) # 0

BrokenEdge == <<"A"," ","-","-"," ","-","-",">"," ","B">>
GoodEdge == <<"A"," ","-","-",">"," ","B">>
DashRunArrow == <<"-"," ","-","-",">">>

\* C12: for input containing A -- --> B the output contains the single
\* well-formed arrow A --> B between A and B, with no leftover dash run or
\* second arrow token.
C12_ArrowRepair ==
    (sanPc = "once" /\ Contains(sanInput, BrokenEdge))
        => (Contains(sanOut, GoodEdge) /\ ~Contains(sanOut, DashRunArrow))

\* revision A repairs the arrow globally and then breaks it again per line
C12_Witness ==
    /\ sanPc = "once"
    /\ sanRev = "A"
    /\ sanInput = <<"f","l","o","w","c","h","a","r","t"," ","T","D","\n","A"," ","-","-"," ","-","-",">"," ","B">>
    /\ sanOut = <<"f","l","o","w","c","h","a","r","t"," ","T","D","\n","A"," "," ","-","-"," ","-","-",">"," ","B">>

HelloNodeOut == <<"A","[","\"","H","e","l","l","o"," ","'","W","o","r","l","d","'","\"","]">>

\* C13: for the input line A[Hello "World"] the output holds a node
\* definition for A whose label is wrapped in double quotes and reads
\* Hello 'World' (inner double quotes turned into single quotes).
C13_LabelRoundTrip ==
    (sanPc = "once" /\ Contains(sanInput, Node_Hello))
        => Contains(sanOut, HelloNodeOut)

\* revision B drops the inner quotes before the label is looked at
C13_Witness ==
    /\ sanPc = "once"
    /\ sanRev = "B"
    /\ sanInput = <<"f","l","o","w","c","h","a","r","t"," ","T","D","\n","A","[","H","e","l","l","o"," ","\"","W","o","r","l","d","\"","]">>
    /\ sanOut = <<"f","l","o","w","c","h","a","r","t"," ","T","D","\n","A","[","\"","H","e","l","l","o"," ","W","o","r","l","d","\"","]">>

\* the first line of a text, and its first line that is not blank
FirstLine(s) == Split(s)[1]

RECURSIVE FirstNonEmptyFrom(_, _)
FirstNonEmptyFrom(lines, i) ==
    IF i > Len(lines) THEN <<>>
    ELSE IF Trim(lines[i]) # <<>> THEN lines[i]
    ELSE FirstNonEmptyFrom(lines, i + 1)

FirstNonEmptyLine(s) == FirstNonEmptyFrom(Split(s), 1)

\* C14: when the first line of the input starts with no diagram-type
\* keyword (also when a header stands on a later line), the first non-empty
\* line of the output starts with a diagram-type keyword.
C14_HeaderInserted ==
    (sanPc = "once" /\ ~MatchesHeader(FirstLine(sanInput)))
        => MatchesHeader(FirstNonEmptyLine(sanOut))

\* revision B finds the header on the second line and inserts nothing
C14_Witness ==
    /\ sanPc = "once"
    /\ sanRev = "B"
    /\ sanInput = <<"x","\n","g","r","a","p","h"," ","T","D","\n","A"," ","-","-",">"," ","B">>
    /\ sanOut = <<"x","\n","g","r","a","p","h"," ","T","D","\n","A"," ","-","-",">"," ","B">>

\* valid header, then edges between plain identifiers with a well-formed arrow
EdgeInputs ==
    {p \o Node_A \o a \o Node_B \o t :
        p \in ValidPrefixes, a \in ValidArrows, t \in SanExtras(MaxExtraLines)}

NotBlank(c) == c # " "

\* the lines after the header, blanks left out: identifiers and arrow tokens
EdgesOf(s) ==
    LET lines == Split(s)
    IN  [i \in 1..(Len(lines) - 1) |-> SelectSeq(lines[i + 1], NotBlank)]

\* C15: for a valid header followed by edges between plain identifiers
\* written with -->, ==> or -.->, the output has the same identifiers and
\* the same edges, each with a single arrow token of the same kind.
C15_EdgesPreserved ==
    (sanPc = "once" /\ sanInput \in EdgeInputs)
        => EdgesOf(sanOut) = EdgesOf(sanInput)

\* revision A puts a second arrow token into the dotted edge
C15_Witness ==
    /\ sanPc = "once"
    /\ sanRev = "A"
    /\ sanInput = <<"f","l","o","w","c","h","a","r","t"," ","T","D","\n","A"," ","-",".","-",">"," ","B">>
    /\ sanInput \in EdgeInputs
    /\ sanOut = <<"f","l","o","w","c","h","a","r","t"," ","T","D","\n","A"," "," ","-",".","-"," ","-","-",">"," ","B">>

LinesIn(s) == {Split(s)[i] : i \in 1..Len(Split(s))}

\* C16: every input line that starts with the comment prefix %% appears in
\* the output exactly as it was in the input.
C16_CommentsUntouched ==
    sanPc = "once"
        => \A l \in LinesIn(sanInput) :
               StartsWith(l, Comment) => l \in LinesIn(sanOut)

\* the global arrow pass of revision B rewrites the arrow inside a comment
C16_Witness ==
    /\ sanPc = "once"
    /\ sanRev = "B"
    /\ sanInput = <<"f","l","o","w","c","h","a","r","t"," ","T","D","\n","%","%"," ","A"," ","-","-"," ",">"," ","B">>
    /\ sanOut = <<"f","l","o","w","c","h","a","r","t"," ","T","D","\n","%","%"," ","A"," ","-","-",">"," ","B">>

\* lines whose only shape delimiter pair encloses no label
EmptyLabelLines ==
    {Node_Aempty, Node_Ablank}
    \cup {n \o a \o Node_B : n \in {Node_Aempty, Node_Ablank}, a \in ValidArrows}

\* C17: a line whose shape delimiter pair encloses no label (A[], or A[ ]
\* holding only whitespace) is emitted unchanged.
C17_EmptyLabelUnchanged ==
    sanPc = "once"
        => \A l \in LinesIn(sanInput) \cap EmptyLabelLines : l \in LinesIn(sanOut)

\* revision B wraps the blank label of A[ ] into an empty quoted label
C17_Witness ==
    /\ sanPc = "once"
    /\ sanRev = "B"
    /\ sanInput = <<"f","l","o","w","c","h","a","r","t"," ","T","D","\n","A","["," ","]">>
    /\ sanOut = <<"f","l","o","w","c","h","a","r","t"," ","T","D","\n","A","[","\"","\"","]">>

\* the labels of a line: the texts between a [ and the next ]
RECURSIVE LabelsFrom(_, _)
LabelsFrom(l, i) ==
    LET open == FindLit(l, <<"[">>, i)
        close == IF open = 0 THEN 0 ELSE FindLit(l, <<"]">>, open + 1)
    IN  IF close = 0 THEN {}
        ELSE {SubSeq(l, open + 1, close - 1)} \cup LabelsFrom(l, close + 1)

LabelsOf(s) == UNION {LabelsFrom(l, 1) : l \in LinesIn(s)}

\* wrapped in exactly one pair of double quotes, no double quote inside
QuotedOnce(label) ==
    /\ Len(label) >= 2
    /\ label[1] = "\""
    /\ label[Len(label)] = "\""
    /\ \A i \in 2..(Len(label) - 1) : label[i] # "\""

\* inputs whose first body line holds one node and nothing else
LoneNodeInputs ==
    {p \o n \o t : p \in SanPrefixes, n \in SanNodes,
                   t \in SanExtras(MaxExtraLines)}

\* C18: every node label rewritten into the output is wrapped in exactly one
\* pair of double quotes with no double quote inside it, and the already
\* quoted label of A["x"] is emitted as it was.
C18_QuotedOnce ==
    (sanPc = "once" /\ sanInput \in LoneNodeInputs)
        => /\ \A label \in LabelsOf(sanOut) : label # <<>> => QuotedOnce(label)
           /\ Node_Aqx \in LinesIn(sanInput) => Node_Aqx \in LinesIn(sanOut)

\* revision C emits a label that starts with a quote as it finds it
C18_Witness ==
    /\ sanPc = "once"
    /\ sanRev = "C"
    /\ sanInput = <<"f","l","o","w","c","h","a","r","t"," ","T","D","\n","A","[","\"","x","\""," ","y","]">>
    /\ sanOut = <<"f","l","o","w","c","h","a","r","t"," ","T","D","\n","A","[","\"","x","\""," ","y","]">>

\* a line that begins with graph or flowchart (in any case, as the header
\* regex reads it)
GraphOrFlowchart(l) ==
    HasAtNoCase(l, KwGraph, 1) \/ HasAtNoCase(l, KwFlowchart, 1)

ValidDirections ==
    {<<"T","D">>, <<"T","B">>, <<"B","T">>, <<"R","L">>, <<"L","R">>}

\* a line that ends in blank space and a direction (in any case)
EndsInValidDirection(l) ==
    \E d \in ValidDirections :
        /\ Len(l) >= 3
        /\ LowerStr(SubSeq(l, Len(l) - 1, Len(l))) = LowerStr(d)
        /\ l[Len(l) - 2] \in WsChars

IsString(s) == s \in Seq(STRING) /\ s # UndefinedLine

\* C20: for every input string (the empty string, whitespace only and text
\* with unbalanced brackets or quotes included) sanitizeMermaid raises no
\* exception and returns a string.
C20_NeverThrows ==
    /\ sanPc # "threw"
    /\ sanPc \in {"once", "twice"} => IsString(sanOut)
    /\ sanPc = "twice" => IsString(sanOut2)

\* the unbalanced line A[" is returned under the default header
C20_Witness ==
    /\ sanPc = "once"
    /\ sanInput = Line_Unbalanced
    /\ sanOut = <<"f","l","o","w","c","h","a","r","t"," ","T","D","\n","A","[","\"">>

----------------------------------------------------------------------------
(* Part 3: the conversation of the App component, in its two revisions:    *)
(*   "v1" src/App.tsx:41-570   (handleClearChat, error state)              *)
(*   "v2" src/App.tsx:591-994  (handleClearHistory, error message)         *)
(* One action is one event handler, or the continuation of sendMessage     *)
(* after its await; the component is rendered again between two events.    *)

(* Bounds of the model *)
MaxClock == 2
MaxSends == 2
MaxGlossary == 2

ChatRevisions == {"v1", "v2"}

\* an identifier: Date.now() + plus, as a string, followed by a suffix
ClockId(plus, suffix) == <<now + plus, suffix>>
WelcomeId == <<0 - 1, "welcome">>

\* INITIAL_MESSAGE
InitialMessage == [id |-> WelcomeId, role |-> "assistant", kind |-> "welcome", req |-> 0]

\* the guard of sendMessage: (!text.trim() && !file [&& !lens]) || isLoading
Accepted(hasText, hasFile, hasLens) ==
    /\ ~isLoading
    /\ IF chatRev = "v1" THEN hasText \/ hasFile ELSE hasText \/ hasFile \/ hasLens

ChatInit ==
    /\ ChatAlone
    /\ chatRev \in ChatRevisions
    /\ now = 0
    /\ messages = <<InitialMessage>>
    /\ isLoading = FALSE
    /\ chatError = 0
    /\ requests = {}
    /\ sends = 0
    /\ outcomes = <<>>
    /\ sinceClear = FALSE
    /\ glossary = <<>>

\* the clock advances by one millisecond
ClockTick ==
    /\ now < MaxClock
    /\ now' = now + 1
    /\ UNCHANGED <<besidesChat, chatRev, messages, isLoading, chatError,
                   requests, sends, outcomes, sinceClear, glossary>>

\* sendMessage(text, file, lens) from the form, a topic or a lens button,
\* up to its await
SendMessage ==
    /\ sends < MaxSends
    /\ \E hasText \in BOOLEAN, hasFile \in BOOLEAN, hasLens \in BOOLEAN :
           Accepted(hasText, hasFile, hasLens)
    /\ sends' = sends + 1
    /\ messages' = Append(messages, [id |-> ClockId(0, ""), role |-> "user",
                                     kind |-> "user", req |-> sends + 1])
    /\ isLoading' = TRUE
    /\ chatError' = IF chatRev = "v1" THEN 0 ELSE chatError
    /\ requests' = requests \cup {sends + 1}
    /\ sinceClear' = FALSE
    /\ UNCHANGED <<besidesChat, chatRev, now, outcomes, glossary>>

\* sendMessage called while its guard holds: returns at once
SendIgnored ==
    /\ \E hasText \in BOOLEAN, hasFile \in BOOLEAN, hasLens \in BOOLEAN :
           ~Accepted(hasText, hasFile, hasLens)
    /\ UNCHANGED vars

\* getGeminiResponse of request r resolves: the assistant message is
\* appended and the finally block clears isLoading
ResponseResolves(r) ==
    /\ r \in requests
    /\ requests' = requests \ {r}
    /\ messages' = Append(messages,
           [id |-> IF chatRev = "v1" THEN ClockId(1, "") ELSE ClockId(0, "-ai"),
            role |-> "assistant", kind |-> "answer", req |-> r])
    /\ outcomes' = Append(outcomes, [req |-> r, kind |-> "answer"])
    /\ isLoading' = FALSE
    /\ UNCHANGED <<besidesChat, chatRev, now, chatError, sends, sinceClear,
                   glossary>>

\* mutant of ResponseRejects: the loading flag is not reset on the error path
ResponseRejects_NoFinally(r) ==
    /\ r \in requests
    /\ requests' = requests \ {r}
    /\ IF chatRev = "v1"
       THEN /\ chatError' = r
            /\ UNCHANGED messages
       ELSE /\ messages' = Append(messages,
                   [id |-> ClockId(0, "-err"), role |-> "assistant",
                    kind |-> "error", req |-> r])
            /\ UNCHANGED chatError
    /\ outcomes' = Append(outcomes, [req |-> r, kind |-> "error"])
    /\ UNCHANGED <<besidesChat, chatRev, now, sends, sinceClear, glossary,
                   isLoading>>

\* getGeminiResponse of request r rejects: the catch block records the
\* error (setError in v1, an assistant message in v2), then finally
ResponseRejects(r) ==
    /\ r \in requests
    /\ requests' = requests \ {r}
    /\ IF chatRev = "v1"
       THEN /\ chatError' = r
            /\ UNCHANGED messages
       ELSE /\ messages' = Append(messages,
                   [id |-> ClockId(0, "-err"), role |-> "assistant",
                    kind |-> "error", req |-> r])
            /\ UNCHANGED chatError
    /\ outcomes' = Append(outcomes, [req |-> r, kind |-> "error"])
    /\ isLoading' = FALSE
    /\ UNCHANGED <<besidesChat, chatRev, now, sends, sinceClear, glossary>>

\* handleClearChat (v1) / handleClearHistory (v2)
ClearChat ==
    /\ IF chatRev = "v1"
       THEN /\ messages' = <<[InitialMessage EXCEPT !.id = ClockId(0, "")]>>
            /\ chatError' = 0
            /\ isLoading' = FALSE
       ELSE /\ messages' = <<InitialMessage>>
            /\ UNCHANGED <<chatError, isLoading>>
    /\ sinceClear' = TRUE
    /\ UNCHANGED <<besidesChat, chatRev, now, requests, sends, outcomes,
                   glossary>>

\* Glossary onAdd: appended in v1, put in front in v2
GlossaryAdd ==
    /\ Len(glossary) < MaxGlossary
    /\ glossary' = IF chatRev = "v1"
                   THEN Append(glossary, ClockId(0, ""))
                   ELSE <<ClockId(0, "")>> \o glossary
    /\ UNCHANGED <<besidesChat, chatRev, now, messages, isLoading, chatError,
                   requests, sends, outcomes, sinceClear>>

\* Glossary onRemove: every item with this identifier is filtered out
GlossaryRemove(i) ==
    /\ i \in 1..Len(glossary)
    /\ glossary' = SelectSeq(glossary, LAMBDA g : g # glossary[i])
    /\ UNCHANGED <<besidesChat, chatRev, now, messages, isLoading, chatError,
                   requests, sends, outcomes, sinceClear>>

\* handleHarvestConcept (v2 only)
HarvestConcept ==
    /\ chatRev = "v2"
    /\ Len(glossary) < MaxGlossary
    /\ glossary' = <<ClockId(0, "")>> \o glossary
    /\ UNCHANGED <<besidesChat, chatRev, now, messages, isLoading, chatError,
                   requests, sends, outcomes, sinceClear>>

ChatNext ==
    \/ ClockTick
    \/ SendMessage
    \/ SendIgnored
    \/ \E r \in requests : ResponseResolves(r)
    \/ \E r \in requests : ResponseRejects(r)
    \/ ClearChat
    \/ GlossaryAdd
    \/ \E i \in 1..Len(glossary) : GlossaryRemove(i)
    \/ HarvestConcept

ChatSpec == ChatInit /\ [][ChatNext]_vars

\* the events of the conversation alone: the glossary handlers read and
\* write no state of it
ConversationNext ==
    \/ ClockTick
    \/ SendMessage
    \/ SendIgnored
    \/ \E r \in requests : ResponseResolves(r)
    \/ \E r \in requests : ResponseRejects(r)
    \/ ClearChat

\* every getGeminiResponse call settles (withRetry settles)
ChatFairSpec ==
    /\ ChatInit /\ [][ConversationNext]_vars
    /\ WF_vars(\E r \in requests : ResponseResolves(r) \/ ResponseRejects(r))

(* Claims about the conversation *)

Distinct(s) == \A i, j \in 1..Len(s) : i # j => s[i] # s[j]
MessageIds == [i \in 1..Len(messages) |-> messages[i].id]

\* C22: in every reachable state the identifiers of the messages of the
\* conversation are pairwise distinct and the identifiers of the glossary
\* items are pairwise distinct, whatever the timing of the send, add and
\* harvest events.
C22_DistinctIds ==
    /\ Distinct(MessageIds)
    /\ Distinct(glossary)

\* two glossary items created within one millisecond share their identifier
C22_Witness ==
    /\ chatRev = "v2"
    /\ now = 0
    /\ glossary = <<ClockId(0, ""), ClockId(0, "")>>
    /\ Distinct(MessageIds)

Requests == 1..MaxSends
OutcomesOf(r) == SelectSeq(outcomes, LAMBDA o : o.req = r)
PositionsOf(r, kinds) ==
    {i \in 1..Len(messages) : messages[i].req = r /\ messages[i].kind \in kinds}

\* the step settles request r
Settles(r) == r \in requests /\ r \notin requests'

\* the outcome that the step records for request r: an assistant message
\* at the end of the conversation, after the user's message of r when that
\* message is still there, or the error
RecordsOutcome(r) ==
    \/ /\ messages' = Append(messages, messages'[Len(messages')])
       /\ messages'[Len(messages')].role = "assistant"
       /\ messages'[Len(messages')].req = r
       /\ messages'[Len(messages')].kind \in {"answer", "error"}
       /\ \A i \in PositionsOf(r, {"user"}) : i < Len(messages')
       /\ UNCHANGED chatError
    \/ /\ chatRev = "v1"
       /\ chatError' = r
       /\ UNCHANGED messages

\* C24: after every accepted sendMessage, whether getGeminiResponse
\* resolves or rejects, isLoading eventually returns to false and exactly
\* one outcome of that request is recorded: an assistant message appended
\* after the user's message, or the error (error state in one revision, an
\* assistant error message in the other).
C24_OneOutcome ==
    /\ \A r \in Requests : (r \in requests) ~> (~isLoading /\ Len(OutcomesOf(r)) = 1)
    /\ \A r \in Requests : [](r \in requests => Len(OutcomesOf(r)) = 0)
    /\ \A r \in Requests : [](Len(OutcomesOf(r)) <= 1)
    /\ [][\A r \in Requests : Settles(r) =>
              /\ RecordsOutcome(r)
              /\ ~isLoading'
              /\ Len(OutcomesOf(r)') = 1]_vars
    /\ [][\A r \in Requests : ~Settles(r) => OutcomesOf(r)' = OutcomesOf(r)]_vars

\* both requests have settled, one by an answer and one by an error
C24_Witness ==
    /\ sends = 2
    /\ requests = {}
    /\ ~isLoading
    /\ outcomes = <<[req |-> 1, kind |-> "error"], [req |-> 2, kind |-> "answer"]>>
    /\ PositionsOf(2, {"answer"}) # {}

IsWelcomeOnly ==
    /\ Len(messages) = 1
    /\ messages[1].kind = "welcome"

\* C26: after the chat is cleared the conversation consists of the single
\* welcome message and stays so until the next accepted sendMessage: the
\* response (or error message) of a request issued before the clear is
\* never appended to the cleared conversation.
C26_ClearedStaysCleared == sinceClear => IsWelcomeOnly

\* the answer of request 1, issued before the clear, stands in the cleared
\* conversation
C26_Witness ==
    /\ chatRev = "v2"
    /\ sinceClear
    /\ sends = 1
    /\ Len(messages) = 2
    /\ messages[1] = InitialMessage
    /\ messages[2].req = 1
    /\ messages[2].kind = "answer"

----------------------------------------------------------------------------
(* Part 4: the `contents` list of getGeminiResponse, history-sanitizing    *)
(* revision (src/services/geminiService.ts:29-75, the same code at         *)
(* src/unnamed/part_008:272-317). The list is built inside the closure     *)
(* handed to withRetry, once per attempt.                                  *)

(* Bounds of the model *)
MaxHistory == 3
MaxBuilds == 2

\* message texts: empty, blank, plain, and padded with white space
Text_Empty == <<>>
Text_Blank == <<" ">>
Text_A == <<"a">>
Text_PaddedB == <<" ", "b", "\n">>
Texts == {Text_Empty, Text_Blank, Text_A, Text_PaddedB}

HistoryItems == [role : {"user", "assistant"}, content : Texts]
RECURSIVE SeqsUpTo(_, _)
SeqsUpTo(S, n) ==
    IF n = 0 THEN {<<>>}
    ELSE LET shorter == SeqsUpTo(S, n - 1)
         IN  shorter \cup {Append(s, x) : s \in {t \in shorter : Len(t) = n - 1}, x \in S}
Histories == SeqsUpTo(HistoryItems, MaxHistory)

TextPart(t) == [kind |-> "text", text |-> t]
InlineDataPart == [kind |-> "inlineData", text |-> <<>>]

\* one step of history.forEach
AddHistoryItem(contents, h) ==
    LET role == IF h.role = "assistant" THEN "model" ELSE "user"
        text == Trim(h.content)
        last == Len(contents)
    IN  IF text = <<>> THEN contents
        ELSE IF last > 0 /\ contents[last].role = role
        THEN [contents EXCEPT ![last].parts[1].text = @ \o <<"\n", "\n">> \o text]
        ELSE Append(contents, [role |-> role, parts |-> <<TextPart(text)>>])

RECURSIVE SanitizeHistory(_, _, _)
SanitizeHistory(history, i, contents) ==
    IF i > Len(history) THEN contents
    ELSE SanitizeHistory(history, i + 1, AddHistoryItem(contents, history[i]))

CurrentParts(userMessage, attachment) ==
    (IF Trim(userMessage) # <<>> THEN <<TextPart(Trim(userMessage))>> ELSE <<>>)
        \o (IF attachment THEN <<InlineDataPart>> ELSE <<>>)

AddCurrent(contents, currentParts) ==
    LET last == Len(contents)
    IN  IF last > 0 /\ contents[last].role = "user"
        THEN [contents EXCEPT ![last].parts = @ \o currentParts]
        ELSE Append(contents, [role |-> "user", parts |-> currentParts])

\* mutant of DropLeadingModel: the list is sent as built
DropLeadingModel_Kept(contents) == contents

\* while (contents.length > 0 && contents[0].role !== 'user') contents.shift()
RECURSIVE DropLeadingModel(_)
DropLeadingModel(contents) ==
    IF Len(contents) > 0 /\ contents[1].role # "user"
    THEN DropLeadingModel(Tail(contents))
    ELSE contents

BuildContents(userMessage, history, attachment) ==
    DropLeadingModel(
        AddCurrent(SanitizeHistory(history, 1, <<>>),
                   CurrentParts(userMessage, attachment)))

ContentsInit ==
    /\ ContentsAlone
    /\ cHistory \in Histories
    /\ cMessage \in Texts
    /\ cAttachment \in BOOLEAN
    /\ cBuilt = <<>>

\* one attempt of withRetry runs the closure: the list is built and sent
ContentsAttempt ==
    /\ Len(cBuilt) < MaxBuilds
    /\ cBuilt' = Append(cBuilt, BuildContents(cMessage, cHistory, cAttachment))
    /\ UNCHANGED <<besidesContents, cHistory, cMessage, cAttachment>>

ContentsNext == ContentsAttempt

ContentsSpec == ContentsInit /\ [][ContentsNext]_vars

(* Claims about the contents list *)

Alternating(contents) ==
    \A i \in 1..(Len(contents) - 1) : contents[i].role # contents[i + 1].role

\* the last parts of the entry are those of the current message: its
\* trimmed text when it is not blank, then the attachment when there is one
CarriesCurrent(entry) ==
    LET hasText == \E i \in 1..Len(cMessage) : cMessage[i] \notin WsChars
        n == Len(entry.parts)
        textAt == IF cAttachment THEN n - 1 ELSE n
    IN  /\ cAttachment => n >= 1 /\ entry.parts[n].kind = "inlineData"
        /\ hasText => /\ textAt >= 1
                      /\ entry.parts[textAt].kind = "text"
                      /\ entry.parts[textAt].text = Trim(cMessage)

\* C23: for every history and current message, the contents list that
\* getGeminiResponse sends has strictly alternating roles, its first entry
\* has role user, its last entry has role user and carries the parts of the
\* current message; the same list is rebuilt on every retry attempt.
C23_ContentsAlternate ==
    \A k \in 1..Len(cBuilt) :
        LET contents == cBuilt[k]
        IN  /\ Len(contents) >= 1
            /\ Alternating(contents)
            /\ contents[1].role = "user"
            /\ contents[Len(contents)].role = "user"
            /\ CarriesCurrent(contents[Len(contents)])
            /\ contents = cBuilt[1]

\* a history that begins with an assistant turn and holds two user turns in
\* a row, sent twice
C23_Witness ==
    /\ Len(cBuilt) = 2
    /\ Len(cHistory) = 3
    /\ cHistory[1].role = "assistant" /\ Trim(cHistory[1].content) # <<>>
    /\ cHistory[2].role = "user" /\ Trim(cHistory[2].content) # <<>>
    /\ cHistory[3].role = "user" /\ Trim(cHistory[3].content) # <<>>
    /\ cMessage = Text_PaddedB
    /\ cAttachment
    /\ Len(cBuilt[1]) = 1
    /\ Len(cBuilt[1][1].parts) = 3

----------------------------------------------------------------------------
(* Part 5: the render effect of the Diagram component, in its revisions    *)
(*   "D1" src/components/Diagram.tsx:25-260  (active flag, error panel)    *)
(*   "D2" src/components/Diagram.tsx:429-564 (active flag, no panel)       *)
(*   "D3" src/unnamed/part_002:150-270       (no flag, container check)    *)
(* A run of the effect is numbered; the svg and the error kept in the      *)
(* state are named by the run that produced them.                          *)

(* Bounds of the model *)
MaxRuns == 4

DiagRevisions == {"D1", "D2", "D3"}
Charts == {"blank", "ok", "long"}

\* `let active = true` ... `return () => { active = false; }`
HasActiveFlag == diagRev \in {"D1", "D2"}

\* containerRef.current of D3: the div is rendered when there is no error
\* and isRendering is false
ContainerMounted == dError = 0 /\ ~dIsRendering

\* what the component returns for its state
Shown ==
    IF dError # 0 THEN (IF diagRev = "D2" THEN "nothing" ELSE "errorPanel")
    ELSE IF dIsRendering THEN "spinner"
    ELSE "diagram"

DiagInit ==
    /\ DiagAlone
    /\ diagRev \in DiagRevisions
    /\ dRun = 0
    /\ dChart \in Charts
    /\ dActive = {}
    /\ dDelay = {}
    /\ dInRender = {}
    /\ dSvg = 0
    /\ dError = 0
    /\ dIsRendering = TRUE
    /\ dRejected = {}

\* renderDiagram of run r, up to its first await or its return
StartD1(r, chart) ==
    IF chart = "blank"
    THEN /\ dIsRendering' = FALSE
         /\ UNCHANGED <<dError, dDelay, dInRender>>
    ELSE /\ dIsRendering' = TRUE
         /\ dError' = 0
         /\ dInRender' = dInRender \cup {r}
         /\ UNCHANGED dDelay

StartD2(r, chart) ==
    IF chart = "blank"
    THEN UNCHANGED <<dIsRendering, dError, dDelay, dInRender>>
    ELSE /\ dIsRendering' = TRUE
         /\ dError' = 0
         /\ dInRender' = dInRender \cup {r}
         /\ UNCHANGED dDelay

StartD3(r, chart) ==
    IF ~ContainerMounted \/ chart = "blank"
    THEN /\ dIsRendering' = FALSE
         /\ UNCHANGED <<dError, dDelay, dInRender>>
    ELSE IF chart = "long"
    THEN /\ dError' = r
         /\ dIsRendering' = FALSE
         /\ UNCHANGED <<dDelay, dInRender>>
    ELSE /\ dIsRendering' = TRUE
         /\ dDelay' = dDelay \cup {r}
         /\ UNCHANGED <<dError, dInRender>>

\* the effect runs: after the mount (the chart is the one of Init), and
\* again when the chart or the theme has changed; the cleanup of the run
\* before it comes first
EffectRuns ==
    /\ dRun < MaxRuns
    /\ dRun' = dRun + 1
    /\ dActive' = IF HasActiveFlag THEN {dRun + 1} ELSE dActive
    /\ \E chart \in (IF dRun = 0 THEN {dChart} ELSE Charts) :
           /\ dChart' = chart
           /\ CASE diagRev = "D1" -> StartD1(dRun + 1, chart)
                [] diagRev = "D2" -> StartD2(dRun + 1, chart)
                [] OTHER -> StartD3(dRun + 1, chart)
    /\ UNCHANGED <<besidesDiag, diagRev, dSvg, dRejected>>

\* the 300 ms timer of run r fires: mermaid.render is called (D3)
DelayDone(r) ==
    /\ r \in dDelay
    /\ dDelay' = dDelay \ {r}
    /\ dInRender' = dInRender \cup {r}
    /\ UNCHANGED <<besidesDiag, diagRev, dRun, dChart, dActive, dSvg, dError,
                   dIsRendering, dRejected>>

\* mermaid.render of run r resolves
RenderResolves(r) ==
    /\ r \in dInRender
    /\ dInRender' = dInRender \ {r}
    /\ IF HasActiveFlag
       THEN IF r \in dActive
            THEN /\ dSvg' = r
                 /\ dIsRendering' = FALSE
                 /\ UNCHANGED dError
            ELSE UNCHANGED <<dSvg, dIsRendering, dError>>
       ELSE /\ dSvg' = r
            /\ dError' = 0
            /\ dIsRendering' = FALSE
    /\ UNCHANGED <<besidesDiag, diagRev, dRun, dChart, dActive, dDelay, dRejected>>

\* the catch block writes the error: `if (active)` in D1 and D2, always in D3
WritesError(r) == HasActiveFlag => r \in dActive

\* mermaid.render of run r rejects
RenderRejects(r) ==
    /\ r \in dInRender
    /\ dInRender' = dInRender \ {r}
    /\ dRejected' = dRejected \cup {r}
    /\ IF WritesError(r)
       THEN /\ dError' = r
            /\ dIsRendering' = FALSE
       ELSE UNCHANGED <<dError, dIsRendering>>
    /\ UNCHANGED <<besidesDiag, diagRev, dRun, dChart, dActive, dDelay, dSvg>>

DiagNext ==
    \/ EffectRuns
    \/ \E r \in dDelay : DelayDone(r)
    \/ \E r \in dInRender : RenderResolves(r)
    \/ \E r \in dInRender : RenderRejects(r)

DiagSpec == DiagInit /\ [][DiagNext]_vars

(* Claims about the Diagram component *)

\* C21: whenever mermaid.render rejects for the current chart, the Diagram
\* component ends with isRendering false and a user-visible fallback (an
\* error panel or the raw text) displayed in place of the diagram, never
\* an empty rendering.
C21_FallbackShown ==
    dRun \in dRejected =>
        /\ ~dIsRendering
        /\ Shown \in {"errorPanel", "rawText"}

\* the render of the only run rejected and the component returns null
C21_Witness ==
    /\ diagRev = "D2"
    /\ dRun = 1
    /\ dRejected = {1}
    /\ dError = 1
    /\ ~dIsRendering
    /\ Shown = "nothing"

\* C27: the svg or error state committed is always that of the render
\* started by the most recent effect run: when the chart or theme changes
\* while a render is in flight, the result of the superseded render is
\* never written to the component state.
C27_CurrentRenderOnly ==
    /\ [][dSvg' # dSvg => dSvg' = dRun']_vars
    /\ [][dError' # dError => dError' \in {0, dRun'}]_vars
    /\ [][\A r \in 1..MaxRuns :
            (r \in dInRender /\ r \notin dInRender' /\ r # dRun) =>
                UNCHANGED <<dSvg, dError, dIsRendering>>]_vars

\* the third run started no render and the svg is that of the second
C27_Witness ==
    /\ diagRev = "D3"
    /\ dRun = 3
    /\ dChart = "ok"
    /\ dSvg = 2
    /\ dInRender = {}
    /\ dDelay = {}
    /\ Shown = "diagram"

----------------------------------------------------------------------------
(* Part 6: the session effect of LiveAudioSession, in its revisions        *)
(*   "L1" src/components/LiveAudioSession.tsx:25-174                       *)
(*   "L2" src/unnamed/part_005:22-170                                      *)
(* A run of the effect (the dialog is opened) is numbered; its cleanup     *)
(* runs when the dialog is closed.                                         *)

(* Bounds of the model *)
MaxOpens == 2
MaxLiveEvents == 1

LiveRevisions == {"L1", "L2"}
LiveRuns == 1..MaxOpens

LiveInit ==
    /\ LiveAlone
    /\ liveRev \in LiveRevisions
    /\ lOpen = FALSE
    /\ lRun = 0
    /\ lActive = {}
    /\ lStage = [r \in LiveRuns |-> "none"]
    /\ lConn = [r \in LiveRuns |-> "none"]
    /\ lProcessor = {}
    /\ lSessionRef = 0
    /\ lStatus = "connecting"
    /\ lTranscript = 0
    /\ lSent = 0
    /\ lCleaned = {}
    /\ lLate = {}

\* a callback of run r does `what`: recorded when the cleanup of r has run
Late(r, what) == IF r \in lCleaned THEN lLate \cup {<<r, what>>} ELSE lLate

\* setStatus(v) called by run r
SetStatus(r, v) ==
    /\ lStatus' = v
    /\ lLate' = Late(r, "status")

\* the guard of setStatus('error') in onerror and in the catch block:
\* none in L1, `if (active)` in L2
ErrorGuard(r) == liveRev = "L2" => r \in lActive

\* the dialog is opened: the effect runs, startSession up to
\* await getUserMedia
OpenDialog ==
    /\ ~lOpen
    /\ lRun < MaxOpens
    /\ lOpen' = TRUE
    /\ lRun' = lRun + 1
    /\ lActive' = lActive \cup {lRun + 1}
    /\ lStage' = [lStage EXCEPT ![lRun + 1] = "media"]
    /\ lStatus' = "connecting"
    /\ UNCHANGED <<besidesLive, liveRev, lConn, lProcessor, lSessionRef,
                   lTranscript, lSent, lCleaned, lLate>>

\* getUserMedia resolves: ai.live.connect is called, up to
\* await sessionPromise
MediaGranted(r) ==
    /\ lStage[r] = "media"
    /\ lStage' = [lStage EXCEPT ![r] = "connect"]
    /\ lConn' = [lConn EXCEPT ![r] = "opening"]
    /\ UNCHANGED <<besidesLive, liveRev, lOpen, lRun, lActive, lProcessor,
                   lSessionRef, lStatus, lTranscript, lSent, lCleaned, lLate>>

\* getUserMedia rejects: the catch block
MediaDenied(r) ==
    /\ lStage[r] = "media"
    /\ lStage' = [lStage EXCEPT ![r] = "failed"]
    /\ IF ErrorGuard(r) THEN SetStatus(r, "error") ELSE UNCHANGED <<lStatus, lLate>>
    /\ UNCHANGED <<besidesLive, liveRev, lOpen, lRun, lActive, lConn, lProcessor,
                   lSessionRef, lTranscript, lSent, lCleaned>>

\* the connection opens: onopen, then sessionRef.current = await sessionPromise
ConnectResolves(r) ==
    /\ lStage[r] = "connect"
    /\ lConn[r] = "opening"
    /\ lStage' = [lStage EXCEPT ![r] = "open"]
    /\ lConn' = [lConn EXCEPT ![r] = "open"]
    /\ lSessionRef' = r
    /\ IF r \in lActive
       THEN /\ SetStatus(r, "listening")
            /\ lProcessor' = lProcessor \cup {r}
       ELSE UNCHANGED <<lStatus, lLate, lProcessor>>
    /\ UNCHANGED <<besidesLive, liveRev, lOpen, lRun, lActive, lTranscript, lSent,
                   lCleaned>>

\* the connection fails to open: sessionPromise rejects, the catch block
ConnectRejects(r) ==
    /\ lStage[r] = "connect"
    /\ lConn[r] = "opening"
    /\ lStage' = [lStage EXCEPT ![r] = "failed"]
    /\ lConn' = [lConn EXCEPT ![r] = "closed"]
    /\ IF ErrorGuard(r) THEN SetStatus(r, "error") ELSE UNCHANGED <<lStatus, lLate>>
    /\ UNCHANGED <<besidesLive, liveRev, lOpen, lRun, lActive, lProcessor,
                   lSessionRef, lTranscript, lSent, lCleaned>>

MessageKinds == IF liveRev = "L1" THEN {"turnComplete", "audio", "interrupted"}
                ELSE {"audio", "interrupted"}

\* onmessage of the connection of run r
OnMessage(r) ==
    /\ lConn[r] = "open"
    /\ \E kind \in MessageKinds :
           IF r \notin lActive
           THEN UNCHANGED <<lStatus, lTranscript, lLate>>
           ELSE IF kind = "turnComplete"
           THEN /\ lTranscript < MaxLiveEvents
                /\ lTranscript' = lTranscript + 1
                /\ lStatus' = "listening"
                /\ lLate' = Late(r, "transcript")
           ELSE /\ SetStatus(r, IF kind = "audio" THEN "speaking" ELSE "listening")
                /\ UNCHANGED lTranscript
    /\ UNCHANGED <<besidesLive, liveRev, lOpen, lRun, lActive, lStage, lConn,
                   lProcessor, lSessionRef, lSent, lCleaned>>

\* onerror of the connection of run r
OnError(r) ==
    /\ lConn[r] \in {"opening", "open"}
    /\ IF ErrorGuard(r) THEN SetStatus(r, "error") ELSE UNCHANGED <<lStatus, lLate>>
    /\ UNCHANGED <<besidesLive, liveRev, lOpen, lRun, lActive, lStage, lConn,
                   lProcessor, lSessionRef, lTranscript, lSent, lCleaned>>

\* the server closes the connection of run r: onclose
OnClose(r) ==
    /\ lConn[r] = "open"
    /\ lConn' = [lConn EXCEPT ![r] = "closed"]
    /\ IF r \in lActive THEN SetStatus(r, "connecting") ELSE UNCHANGED <<lStatus, lLate>>
    /\ UNCHANGED <<besidesLive, liveRev, lOpen, lRun, lActive, lStage, lProcessor,
                   lSessionRef, lTranscript, lSent, lCleaned>>

\* onaudioprocess of the processor of run r: the chunk is sent if (active)
AudioProcess(r) ==
    /\ r \in lProcessor
    /\ lConn[r] = "open"
    /\ lSent < MaxLiveEvents
    /\ IF r \in lActive
       THEN /\ lSent' = lSent + 1
            /\ lLate' = Late(r, "audio")
       ELSE UNCHANGED <<lSent, lLate>>
    /\ UNCHANGED <<besidesLive, liveRev, lOpen, lRun, lActive, lStage, lConn,
                   lProcessor, lSessionRef, lStatus, lTranscript, lCleaned>>

\* the dialog is closed: the cleanup of the current run
CloseDialog ==
    /\ lOpen
    /\ lOpen' = FALSE
    /\ lActive' = lActive \ {lRun}
    /\ lCleaned' = lCleaned \cup {lRun}
    /\ lConn' = IF lSessionRef # 0 /\ lConn[lSessionRef] = "open"
                THEN [lConn EXCEPT ![lSessionRef] = "closed"]
                ELSE lConn
    /\ UNCHANGED <<besidesLive, liveRev, lRun, lStage, lProcessor, lSessionRef,
                   lStatus, lTranscript, lSent, lLate>>

LiveNext ==
    \/ OpenDialog
    \/ CloseDialog
    \/ \E r \in LiveRuns : MediaGranted(r)
    \/ \E r \in LiveRuns : MediaDenied(r)
    \/ \E r \in LiveRuns : ConnectResolves(r)
    \/ \E r \in LiveRuns : ConnectRejects(r)
    \/ \E r \in LiveRuns : OnMessage(r)
    \/ \E r \in LiveRuns : OnError(r)
    \/ \E r \in LiveRuns : OnClose(r)
    \/ \E r \in LiveRuns : AudioProcess(r)

LiveSpec == LiveInit /\ [][LiveNext]_vars

(* Claims about LiveAudioSession *)

\* C28: after the cleanup of LiveAudioSession has run, the live connection
\* opened by that effect run is closed, and no later callback sends audio
\* input or updates status or transcript state, whether the cleanup runs
\* before or after the connection promise resolves.
C28_CleanedUp ==
    /\ \A r \in lCleaned : lConn[r] # "open"
    /\ lLate = {}

\* the dialog was closed before the connection promise resolved: the
\* connection is open, the dialog is closed, no guard was missed
C28_Witness ==
    /\ liveRev = "L2"
    /\ ~lOpen
    /\ lRun = 1
    /\ lCleaned = {1}
    /\ lConn[1] = "open"
    /\ lSessionRef = 1
    /\ lLate = {}

----------------------------------------------------------------------------
(* Part 7: the undo/redo history of the input field                        *)
(* (src/App.tsx:87-89, 206-239). Positions are those of JavaScript: the    *)
(* entry at historyIndex i is hHistory[i + 1].                             *)

\* if (newHistory.length > 50) newHistory.shift()
HistoryCap == 50

\* the texts typed: two are enough to make every snapshot differ from the
\* entry before it
InputTexts == {"", "a"}

HistInit ==
    /\ HistAlone
    /\ hInput = ""
    /\ hHistory = <<"">>
    /\ hIndex = 0
    /\ hInternal = FALSE
    /\ hTimer = TRUE
    /\ hDirty = FALSE

\* mutant of Capped: the oldest entry is kept
Capped_NoShift(newHistory) == newHistory

Capped(newHistory) ==
    IF Len(newHistory) > HistoryCap THEN Tail(newHistory) ELSE newHistory

\* the effect on [input, inputHistory, historyIndex] runs after a render
\* that changed one of them: the cleanup of the run before it clears its
\* timer, then the flag is consumed or a new timer is armed
HistoryEffect ==
    /\ hDirty
    /\ hDirty' = FALSE
    /\ IF hInternal
       THEN /\ hInternal' = FALSE
            /\ hTimer' = FALSE
       ELSE /\ hTimer' = TRUE
            /\ UNCHANGED hInternal
    /\ UNCHANGED <<besidesHist, hInput, hHistory, hIndex>>

\* setInput(v): typing, dictation, clearing or sending
TypeInput(v) ==
    /\ ~hDirty
    /\ v # hInput
    /\ hInput' = v
    /\ hDirty' = TRUE
    /\ UNCHANGED <<besidesHist, hHistory, hIndex, hInternal, hTimer>>

\* the 500 ms timer fires: the debounced snapshot
SnapshotTimer ==
    /\ ~hDirty
    /\ hTimer
    /\ hTimer' = FALSE
    /\ IF hInput # hHistory[hIndex + 1]
       THEN LET newHistory == Capped(Append(SubSeq(hHistory, 1, hIndex + 1), hInput))
            IN  /\ hHistory' = newHistory
                /\ hIndex' = Len(newHistory) - 1
                /\ hDirty' = TRUE
       ELSE UNCHANGED <<hHistory, hIndex, hDirty>>
    /\ UNCHANGED <<besidesHist, hInput, hInternal>>

\* handleUndo
HandleUndo ==
    /\ ~hDirty
    /\ IF hIndex > 0
       THEN /\ hInternal' = TRUE
            /\ hInput' = hHistory[hIndex]
            /\ hIndex' = hIndex - 1
            /\ hDirty' = TRUE
       ELSE UNCHANGED <<hInternal, hInput, hIndex, hDirty>>
    /\ UNCHANGED <<besidesHist, hHistory, hTimer>>

\* handleRedo
HandleRedo ==
    /\ ~hDirty
    /\ IF hIndex < Len(hHistory) - 1
       THEN /\ hInternal' = TRUE
            /\ hInput' = hHistory[hIndex + 2]
            /\ hIndex' = hIndex + 1
            /\ hDirty' = TRUE
       ELSE UNCHANGED <<hInternal, hInput, hIndex, hDirty>>
    /\ UNCHANGED <<besidesHist, hHistory, hTimer>>

HistNext ==
    \/ HistoryEffect
    \/ \E v \in InputTexts : TypeInput(v)
    \/ SnapshotTimer
    \/ HandleUndo
    \/ HandleRedo

HistSpec == HistInit /\ [][HistNext]_vars

(* Claims about the input history *)

\* C29: in every reachable state of the input undo/redo history,
\* 0 <= historyIndex < inputHistory.length <= 50, under any interleaving of
\* typing (debounced snapshot), undo and redo events.
C29_IndexInRange ==
    /\ 0 <= hIndex
    /\ hIndex < Len(hHistory)
    /\ Len(hHistory) <= HistoryCap

\* the history is full, its first entry was shifted out, and undo went
\* back to the oldest entry left
C29_Witness ==
    /\ Len(hHistory) = HistoryCap
    /\ hHistory[1] = "a"
    /\ hIndex = 0
    /\ hInput = "a"
    /\ ~hDirty
====
